---- MODULE Spec2Model ----
(***************************************************************************)
(* A model of the policy layer of the deepbug client: the login rate       *)
(* limiter, the session store, the access tokens and the app object of     *)
(* src/src/utils/security.ts, the chat moderation service of               *)
(* src/src/services/chat.ts and the authentication service of              *)
(* src/src/services/auth.ts.                                               *)
(*                                                                         *)
(* The specifications share the clock `now`:                               *)
(*   SpecRate         SecurityUtils.checkRateLimit / resetRateLimit        *)
(*   SpecSession      SessionManager (both slots, JSON + localStorage)     *)
(*   SpecChat         ChatService, several clients against one store       *)
(*   SpecBan          banUser / unbanUser / isUserBanned                   *)
(*   SpecSend         sendMessage beside openChat / closeChat              *)
(*   SpecModeration   sendMessage beside the moderation calls              *)
(*   SpecClear        deleteMessage / clearAllMessages                     *)
(*   SpecToken        generateAccessToken / validateAccessToken            *)
(*   SpecPassword     validatePassword                                     *)
(*   SpecApp          the subscriptions of DeepBugApp                      *)
(*   SpecAuth         AuthService, tasks of one page                       *)
(*   SpecIdentifiers  the identifiers AuthService gives the rate limiter   *)
(*   SpecLogin        loginUser / loginWithGoogle / logout                 *)
(*   SpecGate         DeepBugApp with its session store and the chat       *)
(***************************************************************************)
EXTENDS Integers, Sequences, FiniteSets, TLC

(***************************************************************************)
(* SECURITY_CONFIG, security.ts:5-13.                                      *)
(***************************************************************************)
MAX_LOGIN_ATTEMPTS == 5
LOCKOUT_DURATION == 15 * 60 * 1000
MAX_EMAIL_LENGTH == 100
MIN_PASSWORD_LENGTH == 8
MAX_MESSAGE_LENGTH == 1000
SESSION_TIMEOUT == 24 * 60 * 60 * 1000

(***************************************************************************)
(* Bounds of the model.                                                    *)
(***************************************************************************)
\* clock advances the rate-limiter specification may take
MaxRateTicks == 3
\* checkRateLimit / resetRateLimit calls the rate-limiter specification may make
MaxRateCalls == 8
\* clock advances the session specification may take
MaxSessTicks == 2
\* SessionManager calls the session specification may make
MaxSessCalls == 3
\* clock advances the chat specification may take
MaxChatTicks == 2
\* ChatService calls the clients may start
MaxChatCalls == 3
\* milliseconds the clock may advance between the two Date.now() reads of a set
MaxClockStep == 1
\* characters of a password before the tail that fills it up
MaxPrefix == 2
\* events the app specification may handle
MaxAppEvents == 4
\* clock advances the authentication specification may take
MaxAuthTicks == 1
\* AuthService calls the tasks may start
MaxAuthCalls == 2
\* clock advances the access-token specification may take
MaxTokenTicks == 2
\* generateAccessToken / validateAccessToken calls it may make
MaxTokenCalls == 2

VARIABLES
    now,            \* Date.now(), in milliseconds
    loginAttempts,  \* security.ts:16, the Map identifier -> record
    rlLast,         \* the last rate-limiter call: what it saw and returned
    rlCalls,        \* per identifier: checkRateLimit calls since it had no record
    rlAfterReset,   \* per identifier: "no", or what the resetRateLimit that was
                    \* the last operation on it found: "absent", "counting", "locked"
    rlTicks,        \* clock advances taken so far
    rlOps,          \* rate-limiter calls made so far
    localStorage,   \* the browser's key -> text store, as used by SessionManager
    ssPending,      \* per slot: what the last set stored, until a clear: {} or {set}
    ssLapsed,       \* per slot: a get has found the record expired since the last set
    ssLast,         \* the last SessionManager call: what it saw and returned
    ssTicks,        \* clock advances taken so far
    ssOps,          \* SessionManager calls made so far
    chatSessions,   \* the chatSessions collection, in creation order
    chat,           \* the chat collection (the messages), in creation order
    bannedUsers,    \* the bannedUsers collection, in creation order
    inFlight,       \* the updateDoc requests of clearAllMessages calls that
                    \* have returned still in flight: message id and admin
    pc,             \* per client: where its ChatService call stands
    call,           \* per client: the arguments and locals of its call
    ret,            \* the last call that returned: what it saw, did and returned
    retMon,         \* what held throughout the last call that returned
    mon,            \* per client: what held so far throughout its running call
    chTicks,        \* clock advances taken so far
    chCalls,        \* ChatService calls started so far
    auPc,           \* per task: where its AuthService call stands
    auCall,         \* per task: the arguments and locals of its call
    auRet,          \* the last AuthService call that returned
    auLast,         \* the last step of an AuthService call: what it consulted
    auFresh,        \* per identifier: a call that consulted it has returned
                    \* success and no call has consulted it since
    auTicks,        \* clock advances taken so far
    auCalls,        \* AuthService calls started so far
    tkIssued,       \* the last access token generated, with its arguments: {} or {t}
    tkLast,         \* the last validateAccessToken call and its result
    tkTicks,        \* clock advances taken so far
    tkOps,          \* access-token calls made so far
    pwLast,         \* the last validatePassword call and its result
    apStage,        \* the app object: "constructed", "ready" or "failed"
    currentUser,    \* DeepBugApp.currentUser: {} (null) or {user}
    chatUnsubscribe,        \* the handle of the message stream, 0 for null
    chatStatusUnsubscribe,  \* the handle of the chat-status stream, 0 for null
    apLive,         \* the subscriptions that are live: stream and handle
    apHandles,      \* handles created so far
    apEvents,       \* app events handled so far
    auVerified,     \* per admin record: the password verifications made
                    \* against it since the last lockout or reset of one of
                    \* its identifiers
    apSent          \* the last ChatService.sendMessage call the app made:
                    \* whether getUserSession() returned a session then

rateVars == <<loginAttempts, rlLast, rlCalls, rlAfterReset, rlTicks, rlOps>>

sessVars == <<localStorage, ssPending, ssLapsed, ssLast, ssTicks, ssOps>>

chatVars == <<chatSessions, chat, bannedUsers, inFlight, pc, call, ret,
              retMon, mon, chTicks, chCalls>>

authVars == <<auPc, auCall, auRet, auLast, auFresh, auTicks, auCalls>>

tokenVars == <<tkIssued, tkLast, tkTicks, tkOps>>

passVars == <<pwLast>>

appVars == <<apStage, currentUser, chatUnsubscribe, chatStatusUnsubscribe,
             apLive, apHandles, apEvents>>

histVars == <<auVerified, apSent>>

vars == <<now, rateVars, sessVars, chatVars, authVars, tokenVars, passVars,
          appVars, histVars>>

Min(a, b) == IF a < b THEN a ELSE b

FloorSeconds(x) == x \div 1000

\* Math.ceil(x / 1000) for an integer x >= 0
CeilSeconds(x) == (x + 999) \div 1000

(***************************************************************************)
(* The rate limiter.  A record is {count, lastAttempt} with an optional    *)
(* lockedUntil; an identifier without a record is outside the map's        *)
(* domain.                                                                 *)
(***************************************************************************)
Identifiers == {"a@x.io", "admin_a@x.io"}

\* the clock when the program starts
StartTime == 1000

\* steps by which the clock advances between two calls of the rate limiter
RateDeltas == {1, LOCKOUT_DURATION - 1, LOCKOUT_DURATION}

\* Map.set(identifier, record)
MapSet(map, id, rec) ==
    [k \in (DOMAIN map) \cup {id} |-> IF k = id THEN rec ELSE map[k]]

\* Map.delete(identifier)
MapDelete(map, id) == [k \in (DOMAIN map) \ {id} |-> map[k]]

\* security.ts:66 and :80, the record of a first attempt
FreshRecord(t) == [count |-> 1, lastAttempt |-> t]

\* security.ts:71, attempts.lockedUntil && now < attempts.lockedUntil
LockedOut(rec, t) ==
    /\ "lockedUntil" \in DOMAIN rec
    /\ rec.lockedUntil # 0
    /\ t < rec.lockedUntil

LockoutPassedStrict(rec, t) ==
    /\ "lockedUntil" \in DOMAIN rec
    /\ rec.lockedUntil # 0
    /\ t > rec.lockedUntil

\* security.ts:79, attempts.lockedUntil && now >= attempts.lockedUntil
LockoutPassed(rec, t) ==
    /\ "lockedUntil" \in DOMAIN rec
    /\ rec.lockedUntil # 0
    /\ t >= rec.lockedUntil

MaxReachedStrict(rec) == rec.count > MAX_LOGIN_ATTEMPTS

\* security.ts:85, attempts.count >= MAX_LOGIN_ATTEMPTS
MaxReached(rec) == rec.count >= MAX_LOGIN_ATTEMPTS

RateLimitMapCountsRefusals(map, id, t) ==
    IF id \notin DOMAIN map THEN MapSet(map, id, FreshRecord(t))
    ELSE LET attempts == map[id] IN
         IF LockedOut(attempts, t) THEN map
         ELSE IF LockoutPassed(attempts, t) THEN MapSet(map, id, FreshRecord(t))
         ELSE IF MaxReached(attempts)
              THEN MapSet(map, id,
                          [count |-> attempts.count + 1,
                           lastAttempt |-> attempts.lastAttempt,
                           lockedUntil |-> t + LOCKOUT_DURATION])
         ELSE MapSet(map, id,
                     [count |-> attempts.count + 1, lastAttempt |-> t])

RateLimitMapExtendsLockout(map, id, t) ==
    IF id \notin DOMAIN map THEN MapSet(map, id, FreshRecord(t))
    ELSE LET attempts == map[id] IN
         IF LockedOut(attempts, t)
         THEN MapSet(map, id,
                     [count |-> attempts.count,
                      lastAttempt |-> attempts.lastAttempt,
                      lockedUntil |-> t + LOCKOUT_DURATION])
         ELSE IF LockoutPassed(attempts, t) THEN MapSet(map, id, FreshRecord(t))
         ELSE IF MaxReached(attempts)
              THEN MapSet(map, id,
                          [count |-> attempts.count,
                           lastAttempt |-> attempts.lastAttempt,
                           lockedUntil |-> t + LOCKOUT_DURATION])
         ELSE MapSet(map, id,
                     [count |-> attempts.count + 1, lastAttempt |-> t])

\* security.ts:61-104: the map checkRateLimit(id) leaves when called at time t
RateLimitMap(map, id, t) ==
    IF id \notin DOMAIN map THEN MapSet(map, id, FreshRecord(t))
    ELSE LET attempts == map[id] IN
         IF LockedOut(attempts, t) THEN map
         ELSE IF LockoutPassed(attempts, t) THEN MapSet(map, id, FreshRecord(t))
         ELSE IF MaxReached(attempts)
              THEN MapSet(map, id,
                          [count |-> attempts.count,
                           lastAttempt |-> attempts.lastAttempt,
                           lockedUntil |-> t + LOCKOUT_DURATION])
         ELSE MapSet(map, id,
                     [count |-> attempts.count + 1, lastAttempt |-> t])

\* security.ts:61-104: what checkRateLimit(id) returns when called at time t
RateLimitResult(map, id, t) ==
    IF id \notin DOMAIN map THEN [allowed |-> TRUE]
    ELSE LET attempts == map[id] IN
         IF LockedOut(attempts, t)
         THEN [allowed |-> FALSE,
               remainingTime |-> CeilSeconds(attempts.lockedUntil - t)]
         ELSE IF LockoutPassed(attempts, t) THEN [allowed |-> TRUE]
         ELSE IF MaxReached(attempts)
              THEN [allowed |-> FALSE,
                    remainingTime |-> CeilSeconds(LOCKOUT_DURATION)]
         ELSE [allowed |-> TRUE]

ResetKeepsLocked(map, id) ==
    IF id \in DOMAIN map /\ "lockedUntil" \in DOMAIN map[id]
    THEN map
    ELSE MapDelete(map, id)

\* security.ts:106-108
ResetRateLimitMap(map, id) == MapDelete(map, id)

\* security.ts:16, the module is loaded: an empty Map
RateStart ==
    /\ loginAttempts = [k \in {} |-> FreshRecord(0)]
    /\ rlLast = [op |-> "none"]
    /\ rlCalls = [i \in Identifiers |-> 0]
    /\ rlAfterReset = [i \in Identifiers |-> "no"]
    /\ rlTicks = 0
    /\ rlOps = 0

\* a call of SecurityUtils.checkRateLimit(id)
CheckRateLimit(id) ==
    /\ rlOps < MaxRateCalls
    /\ loginAttempts' = RateLimitMap(loginAttempts, id, now)
    /\ rlLast' = [op |-> "check", id |-> id, at |-> now,
                  before |-> IF id \in DOMAIN loginAttempts
                             THEN {loginAttempts[id]} ELSE {},
                  afterReset |-> rlAfterReset[id],
                  result |-> RateLimitResult(loginAttempts, id, now)]
    /\ rlCalls' = [rlCalls EXCEPT
                     ![id] = Min(@ + 1, MAX_LOGIN_ATTEMPTS + 2)]
    /\ rlAfterReset' = [rlAfterReset EXCEPT ![id] = "no"]
    /\ rlOps' = rlOps + 1
    /\ UNCHANGED <<now, rlTicks>>

\* a call of SecurityUtils.resetRateLimit(id)
ResetRateLimit(id) ==
    /\ rlOps < MaxRateCalls
    /\ loginAttempts' = ResetRateLimitMap(loginAttempts, id)
    /\ rlLast' = [op |-> "reset", id |-> id, at |-> now]
    /\ rlCalls' = [rlCalls EXCEPT ![id] = 0]
    /\ rlAfterReset' = [rlAfterReset EXCEPT ![id] =
                          IF id \notin DOMAIN loginAttempts THEN "absent"
                          ELSE IF LockedOut(loginAttempts[id], now) THEN "locked"
                          ELSE "counting"]
    /\ rlOps' = rlOps + 1
    /\ UNCHANGED <<now, rlTicks>>

\* time passes between two calls
RateTick ==
    /\ rlTicks < MaxRateTicks
    /\ \E d \in RateDeltas : now' = now + d
    /\ rlTicks' = rlTicks + 1
    /\ UNCHANGED <<loginAttempts, rlLast, rlCalls, rlAfterReset, rlOps>>

(***************************************************************************)
(* The session store.  SessionManager keeps each slot as JSON text in      *)
(* localStorage.  A JavaScript value is modelled by a tagged record:       *)
(*   [str |-> s]  [num |-> n]  [undef |-> TRUE]                             *)
(*   [timestamp |-> s]    a Firestore Timestamp object (userDoc.data())    *)
(*   [fieldValue |-> m]   a Firestore FieldValue sentinel                  *)
(*   [obj |-> f]          a plain object, f its own enumerable properties  *)
(* and a JSON text by the document it denotes, built from str, num, obj.   *)
(***************************************************************************)
SESSION_KEY == "deepbug_session"
ADMIN_SESSION_KEY == "deepbug_admin_session"

Slots == {SESSION_KEY, ADMIN_SESSION_KEY}

\* steps by which the clock advances between two calls of SessionManager
SessDeltas == {1, SESSION_TIMEOUT}

JSStr(s) == [str |-> s]
JSNum(n) == [num |-> n]
JSUndefined == [undef |-> TRUE]
JSObj(f) == [obj |-> f]

\* the subjects passed to setUserSession / setAdminSession by auth.ts, each
\* an id (user.uid, adminDoc.id) with its data:
\*   a document of plain fields;
\*   auth.ts:173-184, loginWithGoogle: avatar: user.photoURL || undefined;
\*   auth.ts:85-95, registerUser: createdAt: serverTimestamp();
\*   auth.ts:137,  loginUser: userDoc.data(), whose *At fields are Timestamps.
Subjects ==
    { [id |-> "uid1", data |-> JSObj([name |-> JSStr("n")])],
      [id |-> "uid2",
       data |-> JSObj([name |-> JSStr("n"), avatar |-> JSUndefined])],
      [id |-> "uid1",
       data |-> JSObj([name |-> JSStr("n"),
                       createdAt |-> [fieldValue |-> "serverTimestamp"]])],
      [id |-> "uid2",
       data |-> JSObj([name |-> JSStr("m"),
                       lastLogin |-> [timestamp |-> 7]])] }

\* a value JSON.stringify writes as it is read back: strings, numbers and
\* plain objects of such values
RECURSIVE IsJSONPlain(_)
IsJSONPlain(v) ==
    IF "obj" \in DOMAIN v
    THEN \A k \in DOMAIN v.obj : IsJSONPlain(v.obj[k])
    ELSE "str" \in DOMAIN v \/ "num" \in DOMAIN v

\* JSON.stringify(v): a property holding undefined is left out, an object of
\* a class is written as its own enumerable properties
RECURSIVE JSONStringify(_)
JSONStringify(v) ==
    IF "obj" \in DOMAIN v
    THEN LET keep == {k \in DOMAIN v.obj : "undef" \notin DOMAIN v.obj[k]}
         IN  [obj |-> [k \in keep |-> JSONStringify(v.obj[k])]]
    ELSE IF "timestamp" \in DOMAIN v
    THEN [obj |-> [seconds |-> JSNum(v.timestamp), nanoseconds |-> JSNum(0)]]
    ELSE IF "fieldValue" \in DOMAIN v
    THEN [obj |-> [_methodName |-> JSStr(v.fieldValue)]]
    ELSE v

\* JSON.parse(text): every object of the document becomes a plain object
RECURSIVE JSONParse(_)
JSONParse(j) ==
    IF "obj" \in DOMAIN j
    THEN JSObj([k \in DOMAIN j.obj |-> JSONParse(j.obj[k])])
    ELSE j

\* security.ts:179-184, the session object of setUserSession; t1 and t2 are
\* the two Date.now() reads
UserSessionObject(userId, userData, t1, t2) ==
    JSObj([userId |-> JSStr(userId), userData |-> userData,
           timestamp |-> JSNum(t1),
           expires |-> JSNum(t2 + SESSION_TIMEOUT)])

\* security.ts:189-194, the session object of setAdminSession
AdminSessionObject(adminId, adminData, t1, t2) ==
    JSObj([adminId |-> JSStr(adminId), adminData |-> adminData,
           timestamp |-> JSNum(t1),
           expires |-> JSNum(t2 + SESSION_TIMEOUT)])

SessionObject(slot, id, data, t1, t2) ==
    IF slot = SESSION_KEY THEN UserSessionObject(id, data, t1, t2)
    ELSE AdminSessionObject(id, data, t1, t2)

\* the subject id and subject data of a parsed session record
SessionSubjectId(slot, parsed) ==
    IF slot = SESSION_KEY THEN parsed.obj.userId ELSE parsed.obj.adminId

SessionSubjectData(slot, parsed) ==
    IF slot = SESSION_KEY THEN parsed.obj.userData ELSE parsed.obj.adminData

\* localStorage.setItem(key, text)
SetItem(store, key, text) ==
    [k \in (DOMAIN store) \cup {key} |-> IF k = key THEN text ELSE store[k]]

\* localStorage.removeItem(key)
RemoveItem(store, key) == [k \in (DOMAIN store) \ {key} |-> store[k]]

SessionExpiredAtExpiry(parsed, t) == t >= parsed.obj.expires.num

\* security.ts:204 and :221, Date.now() > parsed.expires
SessionExpired(parsed, t) == t > parsed.obj.expires.num

KeepWhenExpired(store, key, t) == store

\* security.ts:198-230: localStorage after get{User,Admin}Session at time t
GetSessionStore(store, key, t) ==
    IF key \notin DOMAIN store THEN store
    ELSE IF SessionExpired(JSONParse(store[key]), t)
         THEN RemoveItem(store, key)
    ELSE store

\* security.ts:198-230: what get{User,Admin}Session returns at time t, as
\* the set of the record returned: {} is null
GetSessionResult(store, key, t) ==
    IF key \notin DOMAIN store THEN {}
    ELSE LET parsed == JSONParse(store[key]) IN
         IF SessionExpired(parsed, t) THEN {} ELSE {parsed}

\* the program starts with nothing in localStorage
SessStart ==
    /\ localStorage = [k \in {} |-> JSStr("")]
    /\ ssPending = [k \in Slots |-> {}]
    /\ ssLapsed = [k \in Slots |-> FALSE]
    /\ ssLast = [op |-> "none"]
    /\ ssTicks = 0
    /\ ssOps = 0

\* setUserSession(id, data) / setAdminSession(id, data); the clock may move
\* between the two Date.now() reads
SetSession(slot, id, data) ==
    /\ ssOps < MaxSessCalls
    /\ \E d \in 0..MaxClockStep :
        /\ now' = now + d
        /\ localStorage' =
              SetItem(localStorage, slot,
                      JSONStringify(SessionObject(slot, id, data, now, now')))
        /\ ssPending' = [ssPending EXCEPT ![slot] =
                            {[id |-> id, data |-> data,
                              expires |-> now' + SESSION_TIMEOUT]}]
    /\ ssLapsed' = [ssLapsed EXCEPT ![slot] = FALSE]
    /\ ssLast' = [op |-> "set", slot |-> slot, at |-> now]
    /\ ssOps' = ssOps + 1
    /\ UNCHANGED ssTicks

\* getUserSession() / getAdminSession()
GetSession(slot) ==
    /\ ssOps < MaxSessCalls
    /\ localStorage' = GetSessionStore(localStorage, slot, now)
    /\ ssLast' = [op |-> "get", slot |-> slot, at |-> now,
                  before |-> IF slot \in DOMAIN localStorage
                             THEN {JSONParse(localStorage[slot])} ELSE {},
                  pending |-> ssPending[slot],
                  lapsed |-> ssLapsed[slot],
                  result |-> GetSessionResult(localStorage, slot, now)]
    /\ ssLapsed' = [ssLapsed EXCEPT ![slot] =
                       @ \/ (/\ slot \in DOMAIN localStorage
                             /\ now > JSONParse(localStorage[slot]).obj.expires.num)]
    /\ ssOps' = ssOps + 1
    /\ UNCHANGED <<now, ssPending, ssTicks>>

\* clearUserSession() / clearAdminSession(), security.ts:232-238
ClearSession(slot) ==
    /\ ssOps < MaxSessCalls
    /\ localStorage' = RemoveItem(localStorage, slot)
    /\ ssPending' = [ssPending EXCEPT ![slot] = {}]
    /\ ssLast' = [op |-> "clear", slot |-> slot, at |-> now]
    /\ ssOps' = ssOps + 1
    /\ UNCHANGED <<now, ssLapsed, ssTicks>>

\* time passes between two calls
SessTick ==
    /\ ssTicks < MaxSessTicks
    /\ \E d \in SessDeltas : now' = now + d
    /\ ssTicks' = ssTicks + 1
    /\ UNCHANGED <<localStorage, ssPending, ssLapsed, ssLast, ssOps>>

(***************************************************************************)
(* The chat service.  Several clients call ChatService against one         *)
(* document store.  Every request to the store (getDocs, setDoc,           *)
(* updateDoc) is one step, taken together with the client code that        *)
(* follows it up to the next request, and it either succeeds or is         *)
(* rejected.  A collection is the sequence of its documents in creation    *)
(* order; the position of a document is its id.  docs[0] of an unordered   *)
(* query is whichever matching document the store lists first.             *)
(***************************************************************************)
Clients == {1, 2}

\* the chat users: senders and targets of bans
Users == {"u1"}

\* lengths of the message bodies passed to sendMessage
BodyLengths == {0, MAX_MESSAGE_LENGTH, MAX_MESSAGE_LENGTH + 1}

\* the duration argument of banUser: {} when it is not given, else {ms}
BanDurations == {{}, {1}}

\* the duration argument of banUser, zero milliseconds included
AllBanDurations == BanDurations \cup {{0}}

\* steps by which the clock advances between two steps of the clients
ChatDeltas == {1}

\* the outcome of a request to the store
Outcomes == {"ok", "rejected"}

\* the result messages, named for what they say
MsgInvalid == "message invalid or too long"
MsgBanned == "you are banned from the chat"
MsgClosed == "the chat is closed"
MsgSent == "message sent"
MsgSendError == "error sending the message"
MsgAlreadyOpen == "the chat is already open"
MsgOpened == "chat opened"
MsgOpenError == "error opening the chat"
MsgNoneOpen == "no open chat session"
MsgClosedOk == "chat closed"
MsgCloseError == "error closing the chat"
MsgAlreadyBanned == "the user is already banned"
MsgBannedOk == "user banned"
MsgBanError == "error banning the user"
MsgNotBanned == "the user is not banned"
MsgUnbanned == "user unbanned"
MsgUnbanError == "error unbanning the user"
MsgNoMessage == "no such message"
MsgDeleted == "message deleted"
MsgDeleteError == "error deleting the message"
MsgCleared == "all messages cleared"
MsgClearError == "error clearing the messages"

Result(ok, msg) == [success |-> ok, message |-> msg]

\* security.ts:53-58, validateMessage on a body of the given length
ValidateMessage(len) == ~(len = 0 \/ len > MAX_MESSAGE_LENGTH)

\* ids of the documents matching where('isOpen', '==', true)
OpenSessions == {i \in DOMAIN chatSessions : chatSessions[i].isOpen}

\* ids of the documents matching where('userId', '==', u) and
\* where('isActive', '==', true)
ActiveBans(u) ==
    {i \in DOMAIN bannedUsers :
        bannedUsers[i].userId = u /\ bannedUsers[i].isActive}

BanExpiredFlipped(ban, t) ==
    "expiresAt" \in DOMAIN ban /\ ban.expiresAt > t

\* chat.ts:271, banData.expiresAt && banData.expiresAt.toDate() < new Date()
BanExpired(ban, t) ==
    "expiresAt" \in DOMAIN ban /\ ban.expiresAt < t

\* user u has a ban in force: an active record with no expiresAt or with an
\* expiresAt in the future
InForceBan(u) ==
    \E i \in ActiveBans(u) :
        "expiresAt" \notin DOMAIN bannedUsers[i] \/ bannedUsers[i].expiresAt > now

\* user u has no ban: every active record of u has an expiresAt in the past
NotBanned(u) ==
    \A i \in ActiveBans(u) :
        "expiresAt" \in DOMAIN bannedUsers[i] /\ bannedUsers[i].expiresAt < now

\* the locals of a call that is not running
NoCall ==
    [op |-> "none", user |-> "", valid |-> TRUE, duration |-> {},
     expiresAt |-> {}, doc |-> 0, snapCount |-> 0, snapParts |-> {},
     read |-> "none", upd |-> "none", sole |-> {}, writes |-> {},
     failed |-> FALSE, pending |-> {}, inForce |-> {}]

NewCall(op, u) == [NoCall EXCEPT !.op = op, !.user = u]

\* the locals once a request has been answered: it is noted when the store
\* rejected it
Answered(locals, outcome) ==
    [locals EXCEPT !.failed = @ \/ outcome = "rejected"]

\* the operations that mark messages deleted
ModerationOperations == {"deleteMessage", "clearAllMessages"}

\* what is observed while a call runs
MonFields ==
    {"banned", "notBanned", "noOpen", "noOpening", "noBanning", "quiet"}

\* what a sendMessage call of user u observes of the store, for every call
\* whether no openChat call and no banUser call is running, and for a call
\* observed for no user whether at most one moderation call is running and
\* no update of an earlier one is in flight; of the store nothing is
\* observed for the other calls (u = "")
Observed(u) ==
    [f \in MonFields |->
        CASE f = "banned" -> u \in Users /\ InForceBan(u)
          [] f = "notBanned" -> u \in Users /\ NotBanned(u)
          [] f = "noOpen" -> u \in Users /\ OpenSessions = {}
          [] f = "noOpening" -> \A c \in Clients : call[c].op # "openChat"
          [] f = "noBanning" -> \A c \in Clients : call[c].op # "banUser"
          [] f = "quiet" ->
                /\ u = ""
                /\ inFlight = {}
                /\ \A c, k \in Clients :
                      ({call[c].op, call[k].op} \subseteq ModerationOperations)
                          => c = k]

\* Observed, by user
ObservedAll == [u \in Users \cup {""} |-> Observed(u)]

\* the operations whose call is observed for its user
ObservedOperations == {"sendMessage", "banUser", "unbanUser"}

\* the user whose sendMessage, banUser or unbanUser call client c is running
Sender(c) == IF call[c].op \in ObservedOperations THEN call[c].user ELSE ""

Both(a, b) == [f \in MonFields |-> a[f] /\ b[f]]

NoMon ==
    [banned |-> FALSE, notBanned |-> FALSE, noOpen |-> FALSE,
     noOpening |-> FALSE, noBanning |-> FALSE, quiet |-> FALSE]

\* what holds throughout the call of client c once the step is taken: for
\* the step that starts a sendMessage call of user u, what holds before and
\* after it; for a later step, or a step of another client or of the clock
\* while the call is running, what held so far and holds after it
MonAfter(c, actor, starting, u) ==
    IF c = actor /\ starting THEN Both(Observed(u), ObservedAll'[u])
    ELSE IF c = actor \/ pc[c] # "idle"
    THEN Both(mon[c], ObservedAll'[Sender(c)])
    ELSE NoMon

\* what the claims about an operation read of what its call observed
WatchedFields(op) ==
    IF op = "sendMessage" THEN {"banned", "notBanned", "noOpen"}
    ELSE IF op = "banUser" THEN {"banned", "notBanned"}
    ELSE IF op = "closeChat" THEN {"noOpening"}
    ELSE IF op = "unbanUser" THEN {"noBanning"}
    ELSE IF op \in ModerationOperations THEN {"quiet"}
    ELSE {}

\* of what a call of `op` observed, what is kept
Watched(op, m) == [f \in MonFields |-> f \in WatchedFields(op) /\ m[f]]

\* mon and retMon after a step of client `actor` (0: of the clock)
Monitor(actor, starting, u) ==
    /\ mon' = [c \in Clients |->
                IF pc'[c] = "idle" THEN NoMon
                ELSE Watched(call'[c].op, MonAfter(c, actor, starting, u))]
    /\ retMon' = IF actor \in Clients /\ pc'[actor] = "idle"
                 THEN Watched(ret'.op, MonAfter(actor, actor, starting, u))
                 ELSE retMon

\* the program starts on an empty store, no client in a call
ChatStart ==
    /\ chatSessions = <<>>
    /\ chat = <<>>
    /\ bannedUsers = <<>>
    /\ inFlight = {}
    /\ pc = [c \in Clients |-> "idle"]
    /\ call = [c \in Clients |-> NoCall]
    /\ ret = [op |-> "none"]
    /\ retMon = NoMon
    /\ mon = [c \in Clients |-> NoMon]
    /\ chTicks = 0
    /\ chCalls = 0

\* client c's call returns r; of its locals, what the call saw and did is
\* kept with the result
Return(c, locals, r) ==
    /\ pc' = [pc EXCEPT ![c] = "idle"]
    /\ call' = [call EXCEPT ![c] = NoCall]
    /\ ret' = [op |-> locals.op, user |-> locals.user, result |-> r,
               valid |-> locals.valid, read |-> locals.read,
               upd |-> locals.upd, sole |-> locals.sole,
               doc |-> locals.doc, writes |-> locals.writes,
               failed |-> locals.failed, inForce |-> locals.inForce]

\* client c's call goes on at `next`
Goto(c, locals, next) ==
    /\ pc' = [pc EXCEPT ![c] = next]
    /\ call' = [call EXCEPT ![c] = locals]
    /\ UNCHANGED ret

IsChatOpenUnlessRejected(outcome) == outcome = "rejected" \/ OpenSessions # {}

\* chat.ts:58-72, isChatOpen(): the query's answer, false when it is rejected
IsChatOpen(outcome) == outcome = "ok" /\ OpenSessions # {}

\* chat.ts:75-82, openChat(adminId) up to its first request, the query of
\* isChatOpen
OpenChatCheck(c) ==
    /\ pc[c] = "idle"
    /\ chCalls < MaxChatCalls
    /\ chCalls' = chCalls + 1
    /\ \E outcome \in Outcomes :
          LET locals == Answered([NewCall("openChat", "") EXCEPT
                                     !.read = outcome], outcome) IN
          IF IsChatOpen(outcome)
          THEN Return(c, locals, Result(FALSE, MsgAlreadyOpen))
          ELSE Goto(c, locals, "open_setDoc")
    /\ UNCHANGED <<now, inFlight, chatSessions, chat, bannedUsers, chTicks>>
    /\ Monitor(c, TRUE, "")

\* chat.ts:83-98, openChat: setDoc of the new session
OpenChatSetDoc(c) ==
    /\ pc[c] = "open_setDoc"
    /\ \E outcome \in Outcomes :
          IF outcome = "ok"
          THEN /\ chatSessions' =
                    Append(chatSessions,
                           [isOpen |-> TRUE, participants |-> {},
                            messageCount |-> 0, created |-> 0])
               /\ Return(c, [call[c] EXCEPT !.writes = @ \cup {"chatSessions"}],
                         Result(TRUE, MsgOpened))
          ELSE /\ UNCHANGED chatSessions
               /\ Return(c, Answered(call[c], outcome),
                         Result(FALSE, MsgOpenError))
    /\ UNCHANGED <<now, inFlight, chat, bannedUsers, chTicks, chCalls>>
    /\ Monitor(c, FALSE, "")

\* chat.ts:102-115, closeChat(adminId): the query for the open session
CloseChatQuery(c) ==
    /\ pc[c] = "idle"
    /\ chCalls < MaxChatCalls
    /\ chCalls' = chCalls + 1
    /\ \E outcome \in Outcomes :
          LET locals == Answered([NewCall("closeChat", "") EXCEPT
                                     !.read = outcome], outcome) IN
          IF outcome = "rejected"
          THEN Return(c, locals, Result(FALSE, MsgCloseError))
          ELSE IF OpenSessions = {}
          THEN Return(c, locals, Result(FALSE, MsgNoneOpen))
          ELSE \E d \in OpenSessions :
                   Goto(c, [locals EXCEPT !.doc = d], "close_updateDoc")
    /\ UNCHANGED <<now, inFlight, chatSessions, chat, bannedUsers, chTicks>>
    /\ Monitor(c, TRUE, "")

\* chat.ts:116-126, closeChat: updateDoc of the session found
CloseChatUpdateDoc(c) ==
    /\ pc[c] = "close_updateDoc"
    /\ \E outcome \in Outcomes :
          IF outcome = "ok"
          THEN /\ chatSessions' =
                    [chatSessions EXCEPT ![call[c].doc].isOpen = FALSE]
               /\ Return(c, [call[c] EXCEPT !.writes = @ \cup {"chatSessions"}],
                         Result(TRUE, MsgClosedOk))
          ELSE /\ UNCHANGED chatSessions
               /\ Return(c, Answered(call[c], outcome),
                         Result(FALSE, MsgCloseError))
    /\ UNCHANGED <<now, inFlight, chat, bannedUsers, chTicks, chCalls>>
    /\ Monitor(c, FALSE, "")

\* chat.ts:213, duration ? new Date(Date.now() + duration) : undefined, as
\* the set of the value: {} is undefined
BanExpiresAt(duration, t) ==
    IF duration = {} \/ duration = {0} THEN {}
    ELSE {t + d : d \in duration}

\* the code that follows isUserBanned(u) in its three callers: the stand-alone
\* call returns its value; chat.ts:139-144, sendMessage; chat.ts:204-218,
\* banUser
AfterIsUserBanned(c, locals, banned) ==
    CASE locals.op = "isUserBanned" -> Return(c, locals, banned)
      [] locals.op = "sendMessage" ->
            IF banned
            THEN Return(c, locals, Result(FALSE, MsgBanned))
            ELSE Goto(c, locals, "send_isChatOpen")
      [] locals.op = "banUser" ->
            IF banned
            THEN Return(c, locals, Result(FALSE, MsgAlreadyBanned))
            ELSE Goto(c, [locals EXCEPT
                            !.expiresAt = BanExpiresAt(locals.duration, now)],
                      "ban_setDoc")

\* the active ban record of u when it is the only one and its expiresAt is
\* earlier than now, as a set
SoleBanExpired(u) ==
    {d \in ActiveBans(u) :
        /\ ActiveBans(u) = {d}
        /\ "expiresAt" \in DOMAIN bannedUsers[d]
        /\ bannedUsers[d].expiresAt < now}

\* chat.ts:254-284, isUserBanned(u) up to its updateDoc: the query and the
\* test of docs[0]; a rejected query is caught and answers false
IsUserBannedQuery(c, locals) ==
    \E outcome \in Outcomes :
        LET u == locals.user
            l == Answered([locals EXCEPT !.read = outcome,
                                         !.sole = SoleBanExpired(u)], outcome)
        IN  IF outcome = "rejected" THEN AfterIsUserBanned(c, l, FALSE)
            ELSE IF ActiveBans(u) = {} THEN AfterIsUserBanned(c, l, FALSE)
            ELSE \E d \in ActiveBans(u) :
                    IF BanExpired(bannedUsers[d], now)
                    THEN Goto(c, [l EXCEPT !.doc = d], "isUserBanned_updateDoc")
                    ELSE AfterIsUserBanned(c, [l EXCEPT !.doc = d], TRUE)

\* a call of isUserBanned(u) by a client
IsUserBannedCall(c, u) ==
    /\ pc[c] = "idle"
    /\ chCalls < MaxChatCalls
    /\ chCalls' = chCalls + 1
    /\ IsUserBannedQuery(c, NewCall("isUserBanned", u))
    /\ UNCHANGED <<now, inFlight, chatSessions, chat, bannedUsers, chTicks>>
    /\ Monitor(c, TRUE, "")

\* chat.ts:271-277, isUserBanned: updateDoc of the expired ban; the answer is
\* false whether the update is accepted or rejected (caught at :280)
IsUserBannedUpdateDoc(c) ==
    /\ pc[c] = "isUserBanned_updateDoc"
    /\ \E outcome \in Outcomes :
          IF outcome = "ok"
          THEN /\ bannedUsers' =
                    [bannedUsers EXCEPT ![call[c].doc].isActive = FALSE]
               /\ AfterIsUserBanned(
                      c, [call[c] EXCEPT !.upd = "ok",
                                         !.writes = @ \cup {"bannedUsers"}],
                      FALSE)
          ELSE /\ UNCHANGED bannedUsers
               /\ AfterIsUserBanned(
                      c, Answered([call[c] EXCEPT !.upd = "rejected"], outcome),
                      FALSE)
    /\ UNCHANGED <<now, inFlight, chatSessions, chat, chTicks, chCalls>>
    /\ Monitor(c, FALSE, "")

\* chat.ts:149-161, the message document sendMessage builds: it has no
\* deletedBy field ({}: absent)
NewMessage(u) == [userId |-> u, isDeleted |-> FALSE, deletedBy |-> {}]

\* chat.ts:130-138, sendMessage(u, name, body) up to its first request:
\* validateMessage, then the query of isUserBanned
SendMessageCall(c, u, len) ==
    /\ pc[c] = "idle"
    /\ chCalls < MaxChatCalls
    /\ chCalls' = chCalls + 1
    /\ IF ~ValidateMessage(len)
       THEN Return(c, [NewCall("sendMessage", u) EXCEPT !.valid = FALSE],
                   Result(FALSE, MsgInvalid))
       ELSE IsUserBannedQuery(c, NewCall("sendMessage", u))
    /\ UNCHANGED <<now, inFlight, chatSessions, chat, bannedUsers, chTicks>>
    /\ Monitor(c, TRUE, u)

SendWritesThenChecks(c) ==
    /\ pc[c] = "send_isChatOpen"
    /\ chat' = Append(chat, NewMessage(call[c].user))
    /\ \E outcome \in Outcomes :
          IF IsChatOpen(outcome)
          THEN Goto(c, [call[c] EXCEPT !.writes = @ \cup {"chat"}],
                    "send_sessionQuery")
          ELSE Return(c, [call[c] EXCEPT !.writes = @ \cup {"chat"}],
                      Result(FALSE, MsgClosed))
    /\ UNCHANGED <<now, inFlight, chatSessions, bannedUsers, chTicks, chCalls>>
    /\ Monitor(c, FALSE, "")

\* chat.ts:143-147, sendMessage: the query of isChatOpen
SendIsChatOpen(c) ==
    /\ pc[c] = "send_isChatOpen"
    /\ \E outcome \in Outcomes :
          IF IsChatOpen(outcome)
          THEN Goto(c, call[c], "send_setDoc")
          ELSE Return(c, Answered(call[c], outcome), Result(FALSE, MsgClosed))
    /\ UNCHANGED <<now, inFlight, chatSessions, chat, bannedUsers, chTicks, chCalls>>
    /\ Monitor(c, FALSE, "")

\* history, kept with each session: `created` counts the messages created
\* while the session was open
CountCreated(sessions) ==
    [i \in DOMAIN sessions |->
        IF sessions[i].isOpen
        THEN [sessions[i] EXCEPT !.created = @ + 1]
        ELSE sessions[i]]

SendSetDocRechecks(c) ==
    /\ pc[c] = "send_setDoc"
    /\ \E outcome \in Outcomes :
          IF outcome = "ok" /\ OpenSessions # {} /\ ~InForceBan(call[c].user)
          THEN /\ chat' = Append(chat, NewMessage(call[c].user))
               /\ chatSessions' = CountCreated(chatSessions)
               /\ Goto(c, [call[c] EXCEPT !.writes = @ \cup {"chat"}],
                       "send_sessionQuery")
          ELSE /\ UNCHANGED <<chat, chatSessions>>
               /\ Return(c, Answered(call[c], outcome),
                         Result(FALSE, MsgSendError))
    /\ UNCHANGED <<now, inFlight, bannedUsers, chTicks, chCalls>>
    /\ Monitor(c, FALSE, "")

\* chat.ts:149-165 and :171-174, sendMessage: setDoc of the message
SendSetDoc(c) ==
    /\ pc[c] = "send_setDoc"
    /\ \E outcome \in Outcomes :
          IF outcome = "ok"
          THEN /\ chat' = Append(chat, NewMessage(call[c].user))
               /\ chatSessions' = CountCreated(chatSessions)
               /\ Goto(c, [call[c] EXCEPT !.writes = @ \cup {"chat"}],
                       "send_sessionQuery")
          ELSE /\ UNCHANGED <<chat, chatSessions>>
               /\ Return(c, Answered(call[c], outcome),
                         Result(FALSE, MsgSendError))
    /\ UNCHANGED <<now, inFlight, bannedUsers, chTicks, chCalls>>
    /\ Monitor(c, FALSE, "")

\* chat.ts:351-362, updateSessionParticipants: the query for the open
\* session; a rejected query is caught at :375 and sendMessage succeeds
SendSessionQuery(c) ==
    /\ pc[c] = "send_sessionQuery"
    /\ \E outcome \in Outcomes :
          IF outcome = "rejected" \/ OpenSessions = {}
          THEN Return(c, Answered(call[c], outcome), Result(TRUE, MsgSent))
          ELSE \E d \in OpenSessions :
                  Goto(c, [call[c] EXCEPT
                             !.doc = d,
                             !.snapCount = chatSessions[d].messageCount,
                             !.snapParts = chatSessions[d].participants],
                       "send_sessionUpdate")
    /\ UNCHANGED <<now, inFlight, chatSessions, chat, bannedUsers, chTicks, chCalls>>
    /\ Monitor(c, FALSE, "")

\* chat.ts:364-373, updateSessionParticipants: updateDoc from the data read
\* by the query; a rejected update is caught at :375
SendSessionUpdate(c) ==
    /\ pc[c] = "send_sessionUpdate"
    /\ \E outcome \in Outcomes :
          IF outcome = "ok"
          THEN /\ chatSessions' =
                    [chatSessions EXCEPT
                       ![call[c].doc].participants =
                           IF call[c].user \in call[c].snapParts THEN @
                           ELSE call[c].snapParts \cup {call[c].user},
                       ![call[c].doc].messageCount = call[c].snapCount + 1]
               /\ Return(c, [call[c] EXCEPT !.writes = @ \cup {"chatSessions"}],
                         Result(TRUE, MsgSent))
          ELSE /\ UNCHANGED chatSessions
               /\ Return(c, Answered(call[c], outcome), Result(TRUE, MsgSent))
    /\ UNCHANGED <<now, inFlight, chat, bannedUsers, chTicks, chCalls>>
    /\ Monitor(c, FALSE, "")

\* chat.ts:200-203, banUser(u, adminId, reason, duration?) up to its first
\* request, the query of isUserBanned
BanUserCall(c, u, duration) ==
    /\ pc[c] = "idle"
    /\ chCalls < MaxChatCalls
    /\ chCalls' = chCalls + 1
    /\ IsUserBannedQuery(c, [NewCall("banUser", u) EXCEPT !.duration = duration])
    /\ UNCHANGED <<now, inFlight, chatSessions, chat, bannedUsers, chTicks>>
    /\ Monitor(c, TRUE, u)

\* chat.ts:217-224, banUser: setDoc of the ban record
BanSetDoc(c) ==
    /\ pc[c] = "ban_setDoc"
    /\ \E outcome \in Outcomes :
          IF outcome = "ok"
          THEN /\ bannedUsers' =
                    Append(bannedUsers,
                           IF call[c].expiresAt = {}
                           THEN [userId |-> call[c].user, isActive |-> TRUE]
                           ELSE [userId |-> call[c].user, isActive |-> TRUE,
                                 expiresAt |->
                                    CHOOSE t \in call[c].expiresAt : TRUE])
               /\ Return(c, [call[c] EXCEPT !.writes = @ \cup {"bannedUsers"}],
                         Result(TRUE, MsgBannedOk))
          ELSE /\ UNCHANGED bannedUsers
               /\ Return(c, Answered(call[c], outcome),
                         Result(FALSE, MsgBanError))
    /\ UNCHANGED <<now, inFlight, chatSessions, chat, chTicks, chCalls>>
    /\ Monitor(c, FALSE, "")

\* chat.ts:228-239, unbanUser(u): the query for the active bans of u
UnbanUserGetDocs(c, u) ==
    /\ pc[c] = "idle"
    /\ chCalls < MaxChatCalls
    /\ chCalls' = chCalls + 1
    /\ \E outcome \in Outcomes :
          LET locals == Answered([NewCall("unbanUser", u) EXCEPT
                                     !.read = outcome], outcome) IN
          IF outcome = "rejected"
          THEN Return(c, locals, Result(FALSE, MsgUnbanError))
          ELSE IF ActiveBans(u) = {}
          THEN Return(c, locals, Result(FALSE, MsgNotBanned))
          ELSE \E d \in ActiveBans(u) :
                   Goto(c, [locals EXCEPT !.doc = d], "unban_updateDoc")
    /\ UNCHANGED <<now, inFlight, chatSessions, chat, bannedUsers, chTicks>>
    /\ Monitor(c, TRUE, u)

\* chat.ts:241-250, unbanUser: updateDoc of the ban found
UnbanUserUpdateDoc(c) ==
    /\ pc[c] = "unban_updateDoc"
    /\ \E outcome \in Outcomes :
          IF outcome = "ok"
          THEN /\ bannedUsers' =
                    [bannedUsers EXCEPT ![call[c].doc].isActive = FALSE]
               /\ Return(c, [call[c] EXCEPT !.writes = @ \cup {"bannedUsers"}],
                         Result(TRUE, MsgUnbanned))
          ELSE /\ UNCHANGED bannedUsers
               /\ Return(c, Answered(call[c], outcome),
                         Result(FALSE, MsgUnbanError))
    /\ UNCHANGED <<now, inFlight, chatSessions, chat, chTicks, chCalls>>
    /\ Monitor(c, FALSE, "")

\* ids of the ban records in force: active, with no expiresAt or with an
\* expiresAt that has not passed
BansInForce ==
    {i \in DOMAIN bannedUsers :
        /\ bannedUsers[i].isActive
        /\ ("expiresAt" \in DOMAIN bannedUsers[i]
               => bannedUsers[i].expiresAt >= now)}

\* the ids of a set, greatest first: the records are kept in creation order,
\* which is the order of bannedAt
RECURSIVE Descending(_)
Descending(ids) ==
    IF ids = {} THEN <<>>
    ELSE LET m == CHOOSE i \in ids : \A j \in ids : j <= i
         IN  <<m>> \o Descending(ids \ {m})

\* chat.ts:383-389, where('isActive', '==', true), orderBy('bannedAt', 'desc')
ListedBans ==
    Descending({i \in DOMAIN bannedUsers : bannedUsers[i].isActive})

\* chat.ts:381-395, getBannedUsers(): the query; a rejected query is caught
\* and answers the empty list
GetBannedUsers(c) ==
    /\ pc[c] = "idle"
    /\ chCalls < MaxChatCalls
    /\ chCalls' = chCalls + 1
    /\ \E outcome \in Outcomes :
          LET locals == Answered([NewCall("getBannedUsers", "") EXCEPT
                                     !.read = outcome,
                                     !.inForce = BansInForce], outcome) IN
          Return(c, locals, IF outcome = "ok" THEN ListedBans ELSE <<>>)
    /\ UNCHANGED <<now, inFlight, chatSessions, chat, bannedUsers, chTicks>>
    /\ Monitor(c, TRUE, "")

\* the message ids an admin can name: those of the store and one of no
\* document
MessageIds == 1..(Len(chat) + 1)

\* the admins who moderate the chat
Admins == {"a1", "a2"}

\* the admin of the runs in which one admin moderates
SoleAdmin == {"a1"}

MarkRestored(msg, adminId) ==
    [msg EXCEPT !.isDeleted = ~@, !.deletedBy = {adminId}]

MarkDeletedOnce(msg, adminId) ==
    IF msg.isDeleted THEN msg
    ELSE [msg EXCEPT !.isDeleted = TRUE, !.deletedBy = {adminId}]

\* chat.ts:187-190 and :403-408, the update { isDeleted: true, deletedBy }
\* applied to a message
MarkDeleted(msg, adminId) ==
    [msg EXCEPT !.isDeleted = TRUE, !.deletedBy = {adminId}]

\* chat.ts:178-185, deleteMessage(messageId, adminId): getDoc of the message;
\* the call keeps adminId as its user
DeleteMessageGetDoc(c, id, adminId) ==
    /\ pc[c] = "idle"
    /\ chCalls < MaxChatCalls
    /\ chCalls' = chCalls + 1
    /\ \E outcome \in Outcomes :
          LET locals == Answered([NewCall("deleteMessage", adminId) EXCEPT
                                     !.read = outcome, !.doc = id], outcome) IN
          IF outcome = "rejected"
          THEN Return(c, locals, Result(FALSE, MsgDeleteError))
          ELSE IF id \notin DOMAIN chat
          THEN Return(c, locals, Result(FALSE, MsgNoMessage))
          ELSE Goto(c, locals, "delete_updateDoc")
    /\ UNCHANGED <<now, inFlight, chatSessions, chat, bannedUsers, chTicks>>
    /\ Monitor(c, TRUE, "")

\* chat.ts:187-196, deleteMessage: updateDoc of the message
DeleteMessageUpdateDoc(c) ==
    /\ pc[c] = "delete_updateDoc"
    /\ \E outcome \in Outcomes :
          IF outcome = "ok"
          THEN /\ chat' = [chat EXCEPT
                              ![call[c].doc] = MarkDeleted(@, call[c].user)]
               /\ Return(c, [call[c] EXCEPT !.writes = @ \cup {"chat"}],
                         Result(TRUE, MsgDeleted))
          ELSE /\ UNCHANGED chat
               /\ Return(c, Answered(call[c], outcome),
                         Result(FALSE, MsgDeleteError))
    /\ UNCHANGED <<now, inFlight, chatSessions, bannedUsers, chTicks, chCalls>>
    /\ Monitor(c, FALSE, "")

\* chat.ts:398-410, clearAllMessages(adminId): getDocs of the whole
\* collection, then one updateDoc issued for every document of the snapshot;
\* Promise.all of no promise is fulfilled
ClearAllMessagesGetDocs(c, adminId) ==
    /\ pc[c] = "idle"
    /\ chCalls < MaxChatCalls
    /\ chCalls' = chCalls + 1
    /\ \E outcome \in Outcomes :
          LET locals == Answered([NewCall("clearAllMessages", adminId) EXCEPT
                                     !.read = outcome], outcome) IN
          IF outcome = "rejected"
          THEN Return(c, locals, Result(FALSE, MsgClearError))
          ELSE IF chat = <<>>
          THEN Return(c, locals, Result(TRUE, MsgCleared))
          ELSE Goto(c, [locals EXCEPT !.pending = DOMAIN chat,
                                      !.snapCount = Len(chat)],
                    "clear_updateDoc")
    /\ UNCHANGED <<now, inFlight, chatSessions, chat, bannedUsers, chTicks>>
    /\ Monitor(c, TRUE, "")

\* chat.ts:403-416, clearAllMessages: one of its updateDoc requests is
\* answered.  Promise.all is fulfilled once all are, and rejected by the first
\* that is rejected: the call then returns while the others are in flight
ClearAllMessagesUpdateDoc(c) ==
    /\ pc[c] = "clear_updateDoc"
    /\ \E d \in call[c].pending, outcome \in Outcomes :
          LET rest == call[c].pending \ {d} IN
          IF outcome = "ok"
          THEN /\ chat' = [chat EXCEPT ![d] = MarkDeleted(@, call[c].user)]
               /\ UNCHANGED inFlight
               /\ IF rest = {}
                  THEN Return(c, [call[c] EXCEPT !.writes = @ \cup {"chat"},
                                                 !.pending = {}],
                              Result(TRUE, MsgCleared))
                  ELSE Goto(c, [call[c] EXCEPT !.writes = @ \cup {"chat"},
                                               !.pending = rest],
                            "clear_updateDoc")
          ELSE /\ UNCHANGED chat
               /\ inFlight' =
                    inFlight \cup {[doc |-> r, by |-> call[c].user] : r \in rest}
               /\ Return(c, Answered(call[c], outcome),
                         Result(FALSE, MsgClearError))
    /\ UNCHANGED <<now, chatSessions, bannedUsers, chTicks, chCalls>>
    /\ Monitor(c, FALSE, "")

\* an updateDoc left in flight by a clearAllMessages call that has returned
\* is answered
ClearAllMessagesLateUpdate ==
    /\ \E u \in inFlight, outcome \in Outcomes :
          /\ inFlight' = inFlight \ {u}
          /\ chat' = IF outcome = "ok"
                     THEN [chat EXCEPT ![u.doc] = MarkDeleted(@, u.by)]
                     ELSE chat
    /\ UNCHANGED <<now, chatSessions, bannedUsers, pc, call, ret, chTicks,
                   chCalls>>
    /\ Monitor(0, FALSE, "")

\* time passes
ChatTick ==
    /\ chTicks < MaxChatTicks
    /\ chTicks' = chTicks + 1
    /\ \E d \in ChatDeltas : now' = now + d
    /\ UNCHANGED <<chatSessions, chat, bannedUsers, inFlight, pc, call, ret,
                   chCalls>>
    /\ Monitor(0, FALSE, "")

(***************************************************************************)
(* The authentication service, auth.ts.  The calls of one page run as      *)
(* tasks on one thread: a task runs from one await to the next without     *)
(* interruption, and another task may run while it awaits.  Every await of *)
(* the identity provider or of the document store is one step, taken with  *)
(* the code that follows it up to the next await.                          *)
(***************************************************************************)
Tasks == {1, 2}

\* the email arguments: an address, and a text validator.isEmail refuses
Emails == {"a@x.io", "a.x.io"}

\* the email arguments of the specifications about identifiers: also an
\* address that starts with the prefix of the admin identifiers, and the
\* address in another letter case
AllEmails == Emails \cup {"admin_a@x.io", "A@x.io"}

\* the texts validator.isEmail accepts
WellFormedEmails == {"a@x.io", "admin_a@x.io", "A@x.io"}

\* auth.ts:232, email.toLowerCase()
ToLowerCase(email) == IF email = "A@x.io" THEN "a@x.io" ELSE email

\* whether the name and the password given to registerUser pass
\* validateName and validatePassword
Validities == {TRUE, FALSE}

\* steps by which the clock advances between two steps of the tasks
AuthDeltas == {LOCKOUT_DURATION}

\* security.ts:28-33, validateEmail
ValidateEmail(email) ==
    /\ ~(email = "" \/ Len(email) > MAX_EMAIL_LENGTH)
    /\ email \in WellFormedEmails

\* auth.ts:66 and :119, the identifier loginUser and registerUser consult
UserIdentifier(email) == email

AdminIdentifierShared(email) == email

\* auth.ts:221 and :267, `admin_${email}`
AdminIdentifier(email) == "admin_" \o email

\* the identifier an operation consults for an email
IdentifierOf(op, email) ==
    IF op = "loginAdmin" THEN AdminIdentifier(email) ELSE UserIdentifier(email)

AuthIdentifiers ==
    {IdentifierOf(op, e) : op \in {"loginUser", "loginAdmin"}, e \in AllEmails}

\* the data of the session a successful call stores: auth.ts:85-95 for
\* registerUser, :137 for loginUser, :255-263 for loginAdmin
SessionDataOf(op) ==
    IF op = "registerUser"
    THEN JSObj([name |-> JSStr("n"),
                createdAt |-> [fieldValue |-> "serverTimestamp"]])
    ELSE IF op = "loginUser"
    THEN JSObj([name |-> JSStr("n"), lastLogin |-> [timestamp |-> 7]])
    ELSE JSObj([name |-> JSStr("n"),
                lastLogin |-> [fieldValue |-> "serverTimestamp"]])

SlotOf(op) == IF op = "loginAdmin" THEN ADMIN_SESSION_KEY ELSE SESSION_KEY

\* the locals of a call that is not running
NoAuthCall ==
    [op |-> "none", email |-> "", id |-> "", early |-> FALSE,
     backend |-> {}, wrote |-> FALSE, banned |-> FALSE]

\* early: the call is refused before its first await, by a validation or by
\* checkRateLimit; banned: the call has read a user document whose isBanned
\* is true
NewAuthCall(op, email) == [NoAuthCall EXCEPT !.op = op, !.email = email]

\* the record of identifier id in the table, as a set
RecordOf(map, id) == IF id \in DOMAIN map THEN {map[id]} ELSE {}

\* getCurrentUser() / getCurrentAdmin() at time t, as a set: {} is null
CurrentSubject(store, slot, t) ==
    {SessionSubjectData(slot, r) : r \in GetSessionResult(store, slot, t)}

\* the checkRateLimit calls already made on each identifier, all refused by
\* the backend, when the tasks of the specification start
PriorAttempts == {0, MAX_LOGIN_ATTEMPTS - 1, MAX_LOGIN_ATTEMPTS}

\* the table after n checkRateLimit(id) calls at time t
RECURSIVE AfterAttempts(_, _, _, _)
AfterAttempts(map, id, n, t) ==
    IF n = 0 THEN map
    ELSE AfterAttempts(RateLimitMap(map, id, t), id, n - 1, t)

\* the program starts with no AuthService call running
AuthStart ==
    /\ auPc = [k \in Tasks |-> "idle"]
    /\ auCall = [k \in Tasks |-> NoAuthCall]
    /\ auRet = [op |-> "none"]
    /\ auLast = [op |-> "none", email |-> "", id |-> "", checked |-> FALSE]
    /\ auFresh = [i \in AuthIdentifiers |-> FALSE]
    /\ auTicks = 0
    /\ auCalls = 0

\* the step taken by task k is noted: the operation, and whether the step
\* consulted the rate limiter
AuthNote(k, locals, checked) ==
    auLast' = [op |-> locals.op, email |-> locals.email, id |-> locals.id,
               checked |-> checked]

\* task k's call returns {success, message}; it is noted whether, when it
\* returns, the table holds a record of its identifier and getCurrentUser()
\* and getCurrentAdmin() return a subject
AuthReturn(k, locals, success, message) ==
    /\ auPc' = [auPc EXCEPT ![k] = "idle"]
    /\ auCall' = [auCall EXCEPT ![k] = NoAuthCall]
    /\ auRet' = [op |-> locals.op, email |-> locals.email, id |-> locals.id,
                 success |-> success, message |-> message,
                 early |-> locals.early, backend |-> locals.backend,
                 wrote |-> locals.wrote, banned |-> locals.banned,
                 record |-> RecordOf(loginAttempts', locals.id) # {},
                 user |-> CurrentSubject(localStorage', SESSION_KEY, now') # {},
                 admin |-> CurrentSubject(localStorage', ADMIN_SESSION_KEY, now') # {}]

\* task k's call goes on at `next`
AuthGoto(k, locals, next) ==
    /\ auPc' = [auPc EXCEPT ![k] = next]
    /\ auCall' = [auCall EXCEPT ![k] = locals]
    /\ UNCHANGED auRet

\* the ghost variables of the rate limiter and of the session store, which
\* the authentication service leaves alone
AuthGhostIdle ==
    UNCHANGED <<rlLast, rlCalls, rlAfterReset, rlTicks, rlOps,
                ssPending, ssLapsed, ssLast, ssTicks, ssOps>>

\* checkRateLimit(id) called now answers not allowed
NotAllowed(id) == ~RateLimitResult(loginAttempts, id, now).allowed

StartDespiteLimit(k, locals, next) ==
    /\ loginAttempts' = RateLimitMap(loginAttempts, locals.id, now)
    /\ auFresh' = [auFresh EXCEPT ![locals.id] = FALSE]
    /\ AuthGoto(k, locals, next)

\* auth.ts:66-72, :119-125, :221-227: checkRateLimit(id), and the return
\* when it is not allowed; otherwise the call goes on to its first await
AfterValidation(k, locals, next) ==
    /\ loginAttempts' = RateLimitMap(loginAttempts, locals.id, now)
    /\ auFresh' = [auFresh EXCEPT ![locals.id] = FALSE]
    /\ IF RateLimitResult(loginAttempts, locals.id, now).allowed
       THEN AuthGoto(k, locals, next)
       ELSE AuthReturn(k, locals, FALSE, "rate limited")

\* the entry of an AuthService call by an idle task
AuthEnter(k) ==
    /\ auPc[k] = "idle"
    /\ auCalls < MaxAuthCalls
    /\ auCalls' = auCalls + 1
    /\ UNCHANGED <<now, localStorage, auTicks>>
    /\ AuthGhostIdle

AuthSucceedNoReset(k, locals, message) ==
    /\ UNCHANGED <<now, loginAttempts>>
    /\ localStorage' =
          SetItem(localStorage, SlotOf(locals.op),
                  JSONStringify(
                      SessionObject(SlotOf(locals.op), "uid1",
                                    SessionDataOf(locals.op), now, now)))
    /\ auFresh' = [auFresh EXCEPT ![locals.id] = TRUE]
    /\ AuthReturn(k, [locals EXCEPT !.wrote = TRUE], TRUE, message)

\* the end of a successful call, auth.ts:100-103, :151-154, :266-269: the
\* session is set and the identifier is reset, in one run of the task
AuthSucceed(k, locals, message) ==
    /\ UNCHANGED now
    /\ localStorage' =
          SetItem(localStorage, SlotOf(locals.op),
                  JSONStringify(
                      SessionObject(SlotOf(locals.op), "uid1",
                                    SessionDataOf(locals.op), now, now)))
    /\ loginAttempts' = ResetRateLimitMap(loginAttempts, locals.id)
    /\ auFresh' = [auFresh EXCEPT ![locals.id] = TRUE]
    /\ AuthReturn(k, [locals EXCEPT !.wrote = TRUE], TRUE, message)

\* a step of a running call that does not end in success
AuthStay ==
    /\ UNCHANGED <<now, loginAttempts, localStorage, auFresh, auTicks, auCalls>>
    /\ AuthGhostIdle

\* a step of a running call that ends in success
AuthDone ==
    /\ UNCHANGED <<auTicks, auCalls>>
    /\ AuthGhostIdle

\* auth.ts:111-128, loginUser(email, password) up to its first await
LoginUserStart(k, email) ==
    /\ AuthEnter(k)
    /\ LET locals == [NewAuthCall("loginUser", email) EXCEPT
                        !.id = UserIdentifier(email),
                        !.early = NotAllowed(UserIdentifier(email))] IN
       IF ~ValidateEmail(email)
       THEN /\ UNCHANGED <<loginAttempts, auFresh>>
            /\ AuthReturn(k, [NewAuthCall("loginUser", email) EXCEPT
                                !.early = TRUE], FALSE, "invalid email")
            /\ AuthNote(k, locals, FALSE)
       ELSE /\ AfterValidation(k, locals, "login_signIn")
            /\ AuthNote(k, locals, TRUE)

\* auth.ts:128-132, loginUser: signInWithEmailAndPassword is answered
LoginUserSignIn(k) ==
    /\ auPc[k] = "login_signIn"
    /\ AuthStay
    /\ LET locals == [auCall[k] EXCEPT !.backend = @ \cup {"signIn"}] IN
       \E outcome \in Outcomes :
          IF outcome = "ok"
          THEN AuthGoto(k, locals, "login_getDoc")
          ELSE AuthReturn(k, locals, FALSE, "sign-in error")
    /\ AuthNote(k, auCall[k], FALSE)

\* auth.ts:132-146, loginUser: getDoc of users/{uid} is answered
LoginUserGetDoc(k) ==
    /\ auPc[k] = "login_getDoc"
    /\ AuthStay
    /\ LET locals == [auCall[k] EXCEPT !.backend = @ \cup {"getDoc"}] IN
       \E answer \in {"rejected", "missing", "banned", "found"} :
          CASE answer = "rejected" -> AuthReturn(k, locals, FALSE, "error")
            [] answer = "missing" ->
                  AuthReturn(k, locals, FALSE, "user data missing")
            [] answer = "banned" ->
                  AuthGoto(k, [locals EXCEPT !.banned = TRUE], "login_signOut")
            [] answer = "found" -> AuthGoto(k, locals, "login_updateDoc")
    /\ AuthNote(k, auCall[k], FALSE)

\* auth.ts:140-143, loginUser: signOut of a banned account is answered
LoginUserSignOut(k) ==
    /\ auPc[k] = "login_signOut"
    /\ AuthStay
    /\ LET locals == [auCall[k] EXCEPT !.backend = @ \cup {"signOut"}] IN
       \E outcome \in Outcomes :
          IF outcome = "ok"
          THEN AuthReturn(k, locals, FALSE, "account banned")
          ELSE AuthReturn(k, locals, FALSE, "error")
    /\ AuthNote(k, auCall[k], FALSE)

\* auth.ts:146-158, loginUser: updateDoc of lastLogin is answered
LoginUserUpdateDoc(k) ==
    /\ auPc[k] = "login_updateDoc"
    /\ LET locals == [auCall[k] EXCEPT !.backend = @ \cup {"updateDoc"}] IN
       \E outcome \in Outcomes :
          IF outcome = "ok"
          THEN /\ AuthSucceed(k, locals, "logged in")
               /\ AuthDone
          ELSE /\ AuthStay
               /\ AuthReturn(k, locals, FALSE, "error")
    /\ AuthNote(k, auCall[k], FALSE)

\* auth.ts:161-163, loginWithGoogle() up to its await of signInWithPopup:
\* no validation and no checkRateLimit
LoginWithGoogleStart(k) ==
    /\ AuthEnter(k)
    /\ UNCHANGED <<loginAttempts, auFresh>>
    /\ AuthGoto(k, NewAuthCall("loginWithGoogle", ""), "google_signIn")
    /\ AuthNote(k, NewAuthCall("loginWithGoogle", ""), FALSE)

\* auth.ts:163-167, loginWithGoogle: signInWithPopup is answered
LoginWithGoogleSignIn(k) ==
    /\ auPc[k] = "google_signIn"
    /\ AuthStay
    /\ LET locals == [auCall[k] EXCEPT !.backend = @ \cup {"signIn"}] IN
       \E outcome \in Outcomes :
          IF outcome = "ok"
          THEN AuthGoto(k, locals, "google_getDoc")
          ELSE AuthReturn(k, locals, FALSE, "google login error")
    /\ AuthNote(k, auCall[k], FALSE)

LoginWithGoogleGetDocIgnoresBan(k) ==
    /\ auPc[k] = "google_getDoc"
    /\ AuthStay
    /\ LET locals == [auCall[k] EXCEPT !.backend = @ \cup {"getDoc"}] IN
       \E answer \in {"rejected", "missing", "banned", "found"} :
          CASE answer = "rejected" ->
                  AuthReturn(k, locals, FALSE, "google login error")
            [] answer = "missing" -> AuthGoto(k, locals, "google_setDoc")
            [] answer = "banned" ->
                  AuthGoto(k, [locals EXCEPT !.banned = TRUE],
                           "google_updateDoc")
            [] answer = "found" -> AuthGoto(k, locals, "google_updateDoc")
    /\ AuthNote(k, auCall[k], FALSE)

\* auth.ts:167-198, loginWithGoogle: getDoc of users/{uid} is answered
LoginWithGoogleGetDoc(k) ==
    /\ auPc[k] = "google_getDoc"
    /\ AuthStay
    /\ LET locals == [auCall[k] EXCEPT !.backend = @ \cup {"getDoc"}] IN
       \E answer \in {"rejected", "missing", "banned", "found"} :
          CASE answer = "rejected" ->
                  AuthReturn(k, locals, FALSE, "google login error")
            [] answer = "missing" -> AuthGoto(k, locals, "google_setDoc")
            [] answer = "banned" ->
                  AuthGoto(k, [locals EXCEPT !.banned = TRUE],
                           "google_signOut")
            [] answer = "found" -> AuthGoto(k, locals, "google_updateDoc")
    /\ AuthNote(k, auCall[k], FALSE)

\* auth.ts:191-194, loginWithGoogle: signOut of a banned account is answered
LoginWithGoogleSignOut(k) ==
    /\ auPc[k] = "google_signOut"
    /\ AuthStay
    /\ LET locals == [auCall[k] EXCEPT !.backend = @ \cup {"signOut"}] IN
       \E outcome \in Outcomes :
          IF outcome = "ok"
          THEN AuthReturn(k, locals, FALSE, "account banned")
          ELSE AuthReturn(k, locals, FALSE, "google login error")
    /\ AuthNote(k, auCall[k], FALSE)

\* auth.ts:202-205, loginWithGoogle: setUserSession(uid, userData) and the
\* return of success; no identifier of the rate limiter is reset
LoginWithGoogleSucceed(k, locals, data) ==
    /\ UNCHANGED <<now, loginAttempts, auFresh>>
    /\ localStorage' =
          SetItem(localStorage, SESSION_KEY,
                  JSONStringify(
                      SessionObject(SESSION_KEY, "uid1", data, now, now)))
    /\ AuthReturn(k, [locals EXCEPT !.wrote = TRUE], TRUE, "logged in")

\* auth.ts:170-186 and :202-209, loginWithGoogle: setDoc of the new user
\* document is answered
LoginWithGoogleSetDoc(k) ==
    /\ auPc[k] = "google_setDoc"
    /\ LET locals == [auCall[k] EXCEPT !.backend = @ \cup {"setDoc"}] IN
       \E outcome \in Outcomes :
          IF outcome = "ok"
          THEN /\ LoginWithGoogleSucceed(k, locals,
                                         SessionDataOf("registerUser"))
               /\ AuthDone
          ELSE /\ AuthStay
               /\ AuthReturn(k, locals, FALSE, "google login error")
    /\ AuthNote(k, auCall[k], FALSE)

\* auth.ts:195-209, loginWithGoogle: updateDoc of lastLogin is answered
LoginWithGoogleUpdateDoc(k) ==
    /\ auPc[k] = "google_updateDoc"
    /\ LET locals == [auCall[k] EXCEPT !.backend = @ \cup {"updateDoc"}] IN
       \E outcome \in Outcomes :
          IF outcome = "ok"
          THEN /\ LoginWithGoogleSucceed(k, locals, SessionDataOf("loginUser"))
               /\ AuthDone
          ELSE /\ AuthStay
               /\ AuthReturn(k, locals, FALSE, "google login error")
    /\ AuthNote(k, auCall[k], FALSE)

RegisterUserStartLimiterFirst(k, nameOk, email, passwordOk) ==
    /\ AuthEnter(k)
    /\ LET locals == [NewAuthCall("registerUser", email) EXCEPT
                        !.id = UserIdentifier(email),
                        !.early = NotAllowed(UserIdentifier(email))] IN
       IF ~RateLimitResult(loginAttempts, locals.id, now).allowed
       THEN /\ AfterValidation(k, locals, "register_exists")
            /\ AuthNote(k, locals, TRUE)
       ELSE IF ~nameOk \/ ~ValidateEmail(email) \/ ~passwordOk
       THEN /\ loginAttempts' = RateLimitMap(loginAttempts, locals.id, now)
            /\ UNCHANGED auFresh
            /\ AuthReturn(k, [NewAuthCall("registerUser", email) EXCEPT
                                !.early = TRUE], FALSE,
                          IF ~nameOk THEN "invalid name"
                          ELSE IF ~ValidateEmail(email) THEN "invalid email"
                          ELSE "invalid password")
            /\ AuthNote(k, locals, FALSE)
       ELSE /\ AfterValidation(k, locals, "register_exists")
            /\ AuthNote(k, locals, TRUE)

\* auth.ts:50-75, registerUser(name, email, password) up to its first await
RegisterUserStart(k, nameOk, email, passwordOk) ==
    /\ AuthEnter(k)
    /\ LET locals == [NewAuthCall("registerUser", email) EXCEPT
                        !.id = UserIdentifier(email),
                        !.early = NotAllowed(UserIdentifier(email))] IN
       IF ~nameOk \/ ~ValidateEmail(email) \/ ~passwordOk
       THEN /\ UNCHANGED <<loginAttempts, auFresh>>
            /\ AuthReturn(k, [NewAuthCall("registerUser", email) EXCEPT
                                !.early = TRUE], FALSE,
                          IF ~nameOk THEN "invalid name"
                          ELSE IF ~ValidateEmail(email) THEN "invalid email"
                          ELSE "invalid password")
            /\ AuthNote(k, locals, FALSE)
       ELSE /\ AfterValidation(k, locals, "register_exists")
            /\ AuthNote(k, locals, TRUE)

\* auth.ts:75-81 and :288-300, registerUser: the query of checkUserExists is
\* answered; a rejected query answers false
RegisterUserExists(k) ==
    /\ auPc[k] = "register_exists"
    /\ AuthStay
    /\ LET locals == [auCall[k] EXCEPT !.backend = @ \cup {"getDocs"}] IN
       \E answer \in {"rejected", "empty", "found"} :
          IF answer = "found"
          THEN AuthReturn(k, locals, FALSE, "user exists")
          ELSE AuthGoto(k, locals, "register_create")
    /\ AuthNote(k, auCall[k], FALSE)

\* auth.ts:81-97, registerUser: createUserWithEmailAndPassword is answered
RegisterUserCreate(k) ==
    /\ auPc[k] = "register_create"
    /\ AuthStay
    /\ LET locals == [auCall[k] EXCEPT !.backend = @ \cup {"createUser"}] IN
       \E outcome \in Outcomes :
          IF outcome = "ok"
          THEN AuthGoto(k, locals, "register_setDoc")
          ELSE AuthReturn(k, locals, FALSE, "registration error")
    /\ AuthNote(k, auCall[k], FALSE)

\* auth.ts:97-107, registerUser: setDoc of users/{uid} is answered
RegisterUserSetDoc(k) ==
    /\ auPc[k] = "register_setDoc"
    /\ LET locals == [auCall[k] EXCEPT !.backend = @ \cup {"setDoc"}] IN
       \E outcome \in Outcomes :
          IF outcome = "ok"
          THEN /\ AuthSucceed(k, locals, "account created")
               /\ AuthDone
          ELSE /\ AuthStay
               /\ AuthReturn(k, locals, FALSE, "error")
    /\ AuthNote(k, auCall[k], FALSE)

\* auth.ts:213-236, loginAdmin(email, password) up to its first await
LoginAdminStart(k, email) ==
    /\ AuthEnter(k)
    /\ LET locals == [NewAuthCall("loginAdmin", email) EXCEPT
                        !.id = AdminIdentifier(email),
                        !.early = NotAllowed(AdminIdentifier(email))] IN
       IF ~ValidateEmail(email)
       THEN /\ UNCHANGED <<loginAttempts, auFresh>>
            /\ AuthReturn(k, [NewAuthCall("loginAdmin", email) EXCEPT
                                !.early = TRUE], FALSE, "invalid email")
            /\ AuthNote(k, locals, FALSE)
       ELSE /\ AfterValidation(k, locals, "admin_getDocs")
            /\ AuthNote(k, locals, TRUE)

\* auth.ts:236-248, loginAdmin: the query of admins is answered, then
\* bcrypt.compare
LoginAdminGetDocs(k) ==
    /\ auPc[k] = "admin_getDocs"
    /\ AuthStay
    /\ LET locals == [auCall[k] EXCEPT !.backend = @ \cup {"getDocs"}] IN
       \E answer \in {"rejected", "empty", "found"} :
          CASE answer = "rejected" ->
                  AuthReturn(k, locals, FALSE, "admin login error")
            [] answer = "empty" ->
                  AuthReturn(k, locals, FALSE, "wrong credentials")
            [] answer = "found" -> AuthGoto(k, locals, "admin_compare")
    /\ AuthNote(k, auCall[k], FALSE)

\* auth.ts:245-253, loginAdmin: bcrypt.compare is answered
LoginAdminCompare(k) ==
    /\ auPc[k] = "admin_compare"
    /\ AuthStay
    /\ \E isValidPassword \in BOOLEAN :
          IF isValidPassword
          THEN AuthGoto(k, auCall[k], "admin_updateDoc")
          ELSE AuthReturn(k, auCall[k], FALSE, "wrong credentials")
    /\ AuthNote(k, auCall[k], FALSE)

\* auth.ts:251-273, loginAdmin: updateDoc of lastLogin is answered
LoginAdminUpdateDoc(k) ==
    /\ auPc[k] = "admin_updateDoc"
    /\ LET locals == [auCall[k] EXCEPT !.backend = @ \cup {"updateDoc"}] IN
       \E outcome \in Outcomes :
          IF outcome = "ok"
          THEN /\ AuthSucceed(k, locals, "admin logged in")
               /\ AuthDone
          ELSE /\ AuthStay
               /\ AuthReturn(k, locals, FALSE, "admin login error")
    /\ AuthNote(k, auCall[k], FALSE)

\* auth.ts:277-279, logout() up to its await of signOut
LogoutStart(k) ==
    /\ AuthEnter(k)
    /\ UNCHANGED <<loginAttempts, auFresh>>
    /\ AuthGoto(k, NewAuthCall("logout", ""), "logout_signOut")
    /\ AuthNote(k, NewAuthCall("logout", ""), FALSE)

\* auth.ts:279-285, logout: signOut is answered; the two clears follow it
\* inside the try, and a rejection is caught after them
LogoutSignOut(k) ==
    /\ auPc[k] = "logout_signOut"
    /\ UNCHANGED <<now, loginAttempts, auFresh, auTicks, auCalls>>
    /\ AuthGhostIdle
    /\ LET locals == [auCall[k] EXCEPT !.backend = @ \cup {"signOut"}] IN
       \E outcome \in Outcomes :
          /\ localStorage' =
                IF outcome = "ok"
                THEN RemoveItem(RemoveItem(localStorage, SESSION_KEY),
                                ADMIN_SESSION_KEY)
                ELSE localStorage
          /\ AuthReturn(k, locals, outcome = "ok", "")
    /\ AuthNote(k, auCall[k], FALSE)

\* time passes
AuthTick ==
    /\ auTicks < MaxAuthTicks
    /\ auTicks' = auTicks + 1
    /\ \E d \in AuthDeltas : now' = now + d
    /\ UNCHANGED <<loginAttempts, localStorage, auPc, auCall, auRet, auLast,
                   auFresh, auCalls>>
    /\ AuthGhostIdle

(***************************************************************************)
(* Access tokens, security.ts:136-157.  A string is the sequence of its    *)
(* characters.  btoa writes the bytes of a string three at a time as four  *)
(* characters of the base64 alphabet; a character of that alphabet is      *)
(* modelled by its 6-bit value and the padding '=' by Pad.                 *)
(***************************************************************************)
DigitChars == <<"0", "1", "2", "3", "4", "5", "6", "7", "8", "9">>

Colon == ":"

\* the subject and resource ids given to the two functions: two plain ids
\* and an id that contains the separator
Ids == { <<"a">>, <<"b">>, <<"b", ":", "1">> }

\* steps by which the clock advances between two calls
TokenDeltas == {1, SESSION_TIMEOUT - 1}

IsDigit(c) == \E d \in 1..10 : DigitChars[d] = c

DigitValue(c) == (CHOOSE d \in 1..10 : DigitChars[d] = c) - 1

\* `${n}` for an integer n >= 0: its decimal digits
RECURSIVE NumberToString(_)
NumberToString(n) ==
    IF n < 10 THEN <<DigitChars[n + 1]>>
    ELSE Append(NumberToString(n \div 10), DigitChars[(n % 10) + 1])

\* the Latin-1 code of a character
CharCode(c) ==
    IF IsDigit(c) THEN 48 + DigitValue(c)
    ELSE IF c = ":" THEN 58
    ELSE IF c = "a" THEN 97
    ELSE 98

\* String.fromCharCode
CharOf(code) ==
    IF code \in 48..57 THEN DigitChars[code - 47]
    ELSE IF code = 58 THEN ":"
    ELSE IF code = 97 THEN "a"
    ELSE IF code = 98 THEN "b"
    ELSE "?"

Pad == 64

\* btoa on the codes of a string
RECURSIVE Base64Encode(_)
Base64Encode(bytes) ==
    IF Len(bytes) = 0 THEN <<>>
    ELSE IF Len(bytes) = 1
    THEN <<bytes[1] \div 4, (bytes[1] % 4) * 16, Pad, Pad>>
    ELSE IF Len(bytes) = 2
    THEN <<bytes[1] \div 4, (bytes[1] % 4) * 16 + bytes[2] \div 16,
           (bytes[2] % 16) * 4, Pad>>
    ELSE <<bytes[1] \div 4, (bytes[1] % 4) * 16 + bytes[2] \div 16,
           (bytes[2] % 16) * 4 + bytes[3] \div 64, bytes[3] % 64>>
         \o Base64Encode(SubSeq(bytes, 4, Len(bytes)))

\* atob on a padded base64 text, as codes
RECURSIVE Base64Decode(_)
Base64Decode(token) ==
    IF Len(token) < 4 THEN <<>>
    ELSE LET b1 == token[1] * 4 + token[2] \div 16
             b2 == (token[2] % 16) * 16 + token[3] \div 4
             b3 == (token[3] % 4) * 64 + token[4]
         IN  IF token[3] = Pad THEN <<b1>>
             ELSE IF token[4] = Pad THEN <<b1, b2>>
             ELSE <<b1, b2, b3>> \o Base64Decode(SubSeq(token, 5, Len(token)))

\* btoa(data)
Btoa(data) == Base64Encode([i \in 1..Len(data) |-> CharCode(data[i])])

\* atob(token)
Atob(token) ==
    LET bytes == Base64Decode(token) IN [i \in 1..Len(bytes) |-> CharOf(bytes[i])]

\* the field that ends at the first separator of str, or str when it has none
RECURSIVE FirstField(_)
FirstField(str) ==
    IF Len(str) = 0 \/ str[1] = Colon THEN <<>>
    ELSE <<str[1]>> \o FirstField(Tail(str))

\* decoded.split(':'): the fields between the separators
RECURSIVE Split(_)
Split(str) ==
    LET first == FirstField(str) IN
    IF Len(first) = Len(str) THEN <<first>>
    ELSE <<first>> \o Split(SubSeq(str, Len(first) + 2, Len(str)))

\* parseInt(field) for a field of characters of the alphabet, as a set: {}
\* is NaN; the digits that start the field are read, what follows is ignored
RECURSIVE LeadingDigits(_)
LeadingDigits(str) ==
    IF Len(str) = 0 \/ ~IsDigit(str[1]) THEN <<>>
    ELSE <<str[1]>> \o LeadingDigits(Tail(str))

RECURSIVE DigitsValue(_)
DigitsValue(digits) ==
    IF Len(digits) = 0 THEN 0
    ELSE DigitsValue(SubSeq(digits, 1, Len(digits) - 1)) * 10
             + DigitValue(digits[Len(digits)])

ParseInt(str) ==
    IF LeadingDigits(str) = <<>> THEN {} ELSE {DigitsValue(LeadingDigits(str))}

\* security.ts:136-140, generateAccessToken(userId, resource) at time t
GenerateAccessToken(userId, resource, t) ==
    Btoa(userId \o <<Colon>> \o resource \o <<Colon>> \o NumberToString(t))

\* security.ts:152-153, tokenAge < SESSION_TIMEOUT
TokenFresh(age) == age < SESSION_TIMEOUT

\* security.ts:142-157, validateAccessToken(token, userId, resource) at time
\* t; the destructuring takes the first three fields, a missing field is
\* undefined: it differs from every string and parseInt makes it NaN
ValidateAccessToken(token, userId, resource, t) ==
    LET parts == Split(Atob(token)) IN
    IF parts[1] # userId THEN FALSE
    ELSE IF Len(parts) < 2 \/ parts[2] # resource THEN FALSE
    ELSE IF Len(parts) < 3 THEN FALSE
    ELSE \E issuedAt \in ParseInt(parts[3]) : TokenFresh(t - issuedAt)

\* no token has been generated
TokenStart ==
    /\ tkIssued = {}
    /\ tkLast = [op |-> "none"]
    /\ tkTicks = 0
    /\ tkOps = 0

\* a call of generateAccessToken(userId, resource)
GenerateToken(userId, resource) ==
    /\ tkOps < MaxTokenCalls
    /\ tkOps' = tkOps + 1
    /\ tkIssued' = {[token |-> GenerateAccessToken(userId, resource, now),
                     userId |-> userId, resource |-> resource, at |-> now]}
    /\ tkLast' = [op |-> "generate"]
    /\ UNCHANGED <<now, tkTicks>>

\* a call of validateAccessToken(token, userId, resource) on the token
\* generated last
ValidateToken(userId, resource) ==
    /\ tkOps < MaxTokenCalls
    /\ tkOps' = tkOps + 1
    /\ tkIssued # {}
    /\ \E issued \in tkIssued :
          tkLast' = [op |-> "validate", userId |-> userId,
                     resource |-> resource, at |-> now, issued |-> issued,
                     result |-> ValidateAccessToken(issued.token, userId,
                                                    resource, now)]
    /\ UNCHANGED <<now, tkIssued, tkTicks>>

\* time passes between two calls
TokenTick ==
    /\ tkTicks < MaxTokenTicks
    /\ tkTicks' = tkTicks + 1
    /\ \E d \in TokenDeltas : now' = now + d
    /\ UNCHANGED <<tkIssued, tkLast, tkOps>>

(***************************************************************************)
(* SecurityUtils.validatePassword, security.ts:44-51.  A password is a     *)
(* sequence of characters.                                                 *)
(***************************************************************************)
\* A-Z and a-z
LetterChars ==
    {"a", "b", "c", "d", "e", "f", "g", "h", "i", "j", "k", "l", "m",
     "n", "o", "p", "q", "r", "s", "t", "u", "v", "w", "x", "y", "z",
     "A", "B", "C", "D", "E", "F", "G", "H", "I", "J", "K", "L", "M",
     "N", "O", "P", "Q", "R", "S", "T", "U", "V", "W", "X", "Y", "Z"}

\* \d
DigitSet == {DigitChars[d] : d \in 1..10}

\* @$!%*#?&
SymbolChars == {"@", "$", "!", "%", "*", "#", "?", "&"}

\* the characters `.` does not match
LineTerminators == {"\n", "\r"}

\* [A-Za-z\d@$!%*#?&]
AllowedChars == LetterChars \cup DigitSet \cup SymbolChars

LookaheadAtStart(s, class) == Len(s) > 0 /\ s[1] \in class

\* (?=.*[class]) at the start of s: some character of the class follows
\* characters that `.` matches
Lookahead(s, class) ==
    \E i \in 1..Len(s) :
        /\ s[i] \in class
        /\ \A j \in 1..(i - 1) : s[j] \notin LineTerminators

\* security.ts:49, /^(?=.*[A-Za-z])(?=.*\d)[A-Za-z\d@$!%*#?&]{8,}$/.test(s)
PasswordRegexTest(s) ==
    /\ Lookahead(s, LetterChars)
    /\ Lookahead(s, DigitSet)
    /\ Len(s) >= 8
    /\ \A i \in 1..Len(s) : s[i] \in AllowedChars

\* security.ts:44-51, validatePassword(password)
ValidatePassword(s) ==
    IF Len(s) = 0 \/ Len(s) < MIN_PASSWORD_LENGTH THEN FALSE
    ELSE PasswordRegexTest(s)

\* the passwords the specification names
NamedPasswords ==
    { <<"p", "a", "s", "s", "w", "o", "r", "d">>,
      <<"1", "2", "3", "4", "5", "6", "7", "8">>,
      <<"a", "b", "c", "1", "2", "3", "4", "5">> }

\* the characters the other passwords start with: a letter, a digit, a
\* symbol, a character that is not allowed, a line terminator
PrefixChars == {"a", "1", "@", " ", "\n"}

RECURSIVE Prefixes(_)
Prefixes(n) ==
    IF n = 0 THEN {<<>>}
    ELSE Prefixes(n - 1) \cup
         {Append(p, ch) : p \in Prefixes(n - 1), ch \in PrefixChars}

\* what follows the prefix: six or seven characters of one class or mixed
Fillers ==
    { <<>>,
      <<"a", "a", "a", "a", "a", "a">>,
      <<"1", "1", "1", "1", "1", "1">>,
      <<"@", "@", "@", "@", "@", "@">>,
      <<"a", "1", "@", "a", "1", "@">>,
      <<"a", "a", "a", "a", "a", "a", "1">>,
      <<"@", "@", "@", "@", "@", "1", "a">> }

\* the passwords given to validatePassword
Passwords ==
    NamedPasswords \cup {p \o f : p \in Prefixes(MaxPrefix), f \in Fillers}

PassStart == pwLast = [op |-> "none"]

\* a call of SecurityUtils.validatePassword(s)
ValidatePasswordCall(s) ==
    /\ pwLast' = [op |-> "validate", password |-> s,
                  result |-> ValidatePassword(s)]
    /\ UNCHANGED <<now, appVars>>

(***************************************************************************)
(* The page's app object, DeepBugApp in security.ts, and its two chat      *)
(* subscriptions.  A handler runs without interruption from the answer of  *)
(* the AuthService call it awaits to its end; before the await it changes  *)
(* nothing of the app object.  A handle is the function onSnapshot         *)
(* returned; calling it ends its subscription.                             *)
(***************************************************************************)
\* what AuthService.getCurrentUser() or a successful login gives
AppUsers == {"u1", "u2"}

\* the subscriptions left live when the handles of the set are called;
\* calling a handle again does nothing
Cancelled(live, handles) == {h \in live : h.id \notin handles}

InitializeChatListenersKeepingOld(user) ==
    \E statusOk \in BOOLEAN, messagesOk \in BOOLEAN :
        LET statusId == apHandles + 1
            messagesId == apHandles + 2
        IN  /\ chatStatusUnsubscribe' = statusId
            /\ chatUnsubscribe' = IF user # {} THEN messagesId
                                  ELSE chatUnsubscribe
            /\ apHandles' = IF user # {} THEN messagesId ELSE statusId
            /\ apLive' =
                  apLive
                  \cup (IF statusOk
                        THEN {[stream |-> "status", id |-> statusId]}
                        ELSE {})
                  \cup (IF messagesOk /\ user # {}
                        THEN {[stream |-> "messages", id |-> messagesId]}
                        ELSE {})

\* security.ts:478-497, initializeChatListeners() with this.currentUser =
\* user: both handles are called when set, then the status stream is
\* subscribed, and the message stream when there is a user.  chat.ts:307-349:
\* when onSnapshot throws, the handle returned is a function that does
\* nothing and no subscription is made
InitializeChatListeners(user) ==
    \E statusOk \in BOOLEAN, messagesOk \in BOOLEAN :
        LET afterCancel ==
                Cancelled(apLive, {chatUnsubscribe, chatStatusUnsubscribe})
            statusId == apHandles + 1
            messagesId == apHandles + 2
        IN  /\ chatStatusUnsubscribe' = statusId
            /\ chatUnsubscribe' = IF user # {} THEN messagesId
                                  ELSE chatUnsubscribe
            /\ apHandles' = IF user # {} THEN messagesId ELSE statusId
            /\ apLive' =
                  afterCancel
                  \cup (IF statusOk
                        THEN {[stream |-> "status", id |-> statusId]}
                        ELSE {})
                  \cup (IF messagesOk /\ user # {}
                        THEN {[stream |-> "messages", id |-> messagesId]}
                        ELSE {})

\* security.ts:255-264, the constructor
AppStart ==
    /\ apStage = "constructed"
    /\ currentUser = {}
    /\ chatUnsubscribe = 0
    /\ chatStatusUnsubscribe = 0
    /\ apLive = {}
    /\ apHandles = 0
    /\ apEvents = 0

\* security.ts:266-294, init(): when initializeAdmin() is rejected nothing is
\* set up; else checkAuthStatus() takes the user of the stored session,
\* the handlers are registered and initializeChatListeners() is called
AppInit ==
    /\ apStage = "constructed"
    /\ apEvents' = apEvents + 1
    /\ \E outcome \in Outcomes, user \in {{}} \cup {{u} : u \in AppUsers} :
          IF outcome = "rejected"
          THEN /\ apStage' = "failed"
               /\ UNCHANGED <<currentUser, chatUnsubscribe,
                              chatStatusUnsubscribe, apLive, apHandles>>
          ELSE /\ apStage' = "ready"
               /\ currentUser' = user
               /\ InitializeChatListeners(user)
    /\ UNCHANGED <<now, passVars>>

\* the part of handleLogin, handleRegister and handleGoogleLogin that follows
\* the answer of AuthService: security.ts:912-920, :942-950, :961-969
AfterAuthResult(success, u) ==
    /\ apStage = "ready"
    /\ apEvents < MaxAppEvents
    /\ apEvents' = apEvents + 1
    /\ IF success
       THEN /\ currentUser' = {u}
            /\ InitializeChatListeners({u})
       ELSE UNCHANGED <<currentUser, chatUnsubscribe, chatStatusUnsubscribe,
                        apLive, apHandles>>
    /\ UNCHANGED <<now, passVars, apStage>>

\* security.ts:898-925
HandleLogin(success, u) == AfterAuthResult(success, u)

\* security.ts:927-955
HandleRegister(success, u) == AfterAuthResult(success, u)

\* security.ts:957-974
HandleGoogleLogin(success, u) == AfterAuthResult(success, u)

\* security.ts:976-998, logout() after AuthService.logout(), which does not
\* throw: the message handle is called and dropped, the status handle kept
AppLogout ==
    /\ apStage = "ready"
    /\ apEvents < MaxAppEvents
    /\ apEvents' = apEvents + 1
    /\ currentUser' = {}
    /\ apLive' = Cancelled(apLive, {chatUnsubscribe})
    /\ chatUnsubscribe' = 0
    /\ UNCHANGED <<now, passVars, apStage, chatStatusUnsubscribe, apHandles>>

\* the client by which the app page calls ChatService
AppClient == 1

\* the ghost variables of the session store, which the app leaves alone
SessGhostIdle == UNCHANGED <<ssPending, ssLapsed, ssLast, ssTicks, ssOps>>

\* the id of the user of the session getUserSession() returns at time t
SessionUser(store, t) ==
    {r.obj.userId.str : r \in GetSessionResult(store, SESSION_KEY, t)}

\* security.ts:266-294 and :317-323, init() with the session store:
\* checkAuthStatus() caches the user of the stored session, which
\* getUserSession() removes when it has expired
AppInitWithSession ==
    /\ AppInit
    /\ apStage' = "ready" => currentUser' = SessionUser(localStorage, now)
    /\ localStorage' =
          IF apStage' = "ready"
          THEN GetSessionStore(localStorage, SESSION_KEY, now)
          ELSE localStorage
    /\ SessGhostIdle

\* security.ts:898-925 with auth.ts:151, handleLogin: a loginUser that
\* succeeds has stored the session of the user before it answers
HandleLoginWithSession(success, u) ==
    /\ HandleLogin(success, u)
    /\ localStorage' =
          IF success
          THEN SetItem(localStorage, SESSION_KEY,
                       JSONStringify(
                           SessionObject(SESSION_KEY, u,
                                         SessionDataOf("loginUser"), now, now)))
          ELSE localStorage
    /\ SessGhostIdle

\* security.ts:976-998 with auth.ts:277-285, logout(): AuthService.logout()
\* clears both slots unless its signOut is rejected
AppLogoutWithSession ==
    /\ AppLogout
    /\ \E outcome \in Outcomes :
          localStorage' =
              IF outcome = "ok"
              THEN RemoveItem(RemoveItem(localStorage, SESSION_KEY),
                              ADMIN_SESSION_KEY)
              ELSE localStorage
    /\ SessGhostIdle

\* security.ts:800-826, sendChatMessage() up to its await: nothing is sent
\* without a cached user or with an empty message; else
\* ChatService.sendMessage is called for the cached user.  It is noted
\* whether getUserSession() would return a session at that time
SendChatMessage(len) ==
    /\ apStage = "ready"
    /\ apEvents < MaxAppEvents
    /\ apEvents' = apEvents + 1
    /\ IF currentUser = {} \/ len = 0
       THEN UNCHANGED <<now, chatVars, apSent>>
       ELSE /\ \E u \in currentUser : SendMessageCall(AppClient, u, len)
            /\ apSent' =
                  [called |-> TRUE,
                   session |->
                       GetSessionResult(localStorage, SESSION_KEY, now) # {}]
    /\ UNCHANGED <<localStorage, passVars, apStage, currentUser,
                   chatUnsubscribe, chatStatusUnsubscribe, apLive, apHandles>>
    /\ SessGhostIdle

\* steps by which the clock advances between two events of the page: up
\* to the expiry of a session and past it
GateDeltas == {SESSION_TIMEOUT, SESSION_TIMEOUT + 1}

\* time passes
GateTick ==
    /\ chTicks < MaxChatTicks
    /\ chTicks' = chTicks + 1
    /\ \E d \in GateDeltas : now' = now + d
    /\ UNCHANGED <<chatSessions, chat, bannedUsers, inFlight, pc, call, ret,
                   chCalls>>
    /\ Monitor(0, FALSE, "")

(***************************************************************************)
(* The specifications.  The program starts with an empty rate-limit table  *)
(* and an empty localStorage; each specification exercises one component   *)
(* and leaves the others as they started.                                  *)
(***************************************************************************)
\* the admin records the email arguments reach
AdminRecords == {ToLowerCase(e) : e \in {a \in AllEmails : ValidateEmail(a)}}

\* the app has called ChatService.sendMessage never
NoSend == [called |-> FALSE, session |-> FALSE]

\* no password has been verified against an admin record
HistStart ==
    /\ auVerified = [r \in AdminRecords |-> 0]
    /\ apSent = NoSend

Init ==
    /\ now = StartTime
    /\ RateStart
    /\ SessStart
    /\ ChatStart
    /\ AuthStart
    /\ TokenStart
    /\ PassStart
    /\ AppStart
    /\ HistStart

\* the components a specification leaves alone
RateIdle == UNCHANGED rateVars
SessIdle == UNCHANGED sessVars
ChatIdle == UNCHANGED chatVars
AuthIdle == UNCHANGED authVars
TokenIdle == UNCHANGED tokenVars
PageIdle == UNCHANGED <<passVars, appVars, histVars>>
HistIdle == UNCHANGED histVars

NextRate ==
    \/ \E id \in Identifiers : CheckRateLimit(id) /\ SessIdle /\ ChatIdle /\ AuthIdle /\ TokenIdle /\ PageIdle
    \/ \E id \in Identifiers : ResetRateLimit(id) /\ SessIdle /\ ChatIdle /\ AuthIdle /\ TokenIdle /\ PageIdle
    \/ RateTick /\ SessIdle /\ ChatIdle /\ AuthIdle /\ TokenIdle /\ PageIdle

SpecRate == Init /\ [][NextRate]_vars

NextSession ==
    \/ \E slot \in Slots, s \in Subjects : SetSession(slot, s.id, s.data) /\ RateIdle /\ ChatIdle /\ AuthIdle /\ TokenIdle /\ PageIdle
    \/ \E slot \in Slots : GetSession(slot) /\ RateIdle /\ ChatIdle /\ AuthIdle /\ TokenIdle /\ PageIdle
    \/ \E slot \in Slots : ClearSession(slot) /\ RateIdle /\ ChatIdle /\ AuthIdle /\ TokenIdle /\ PageIdle
    \/ SessTick /\ RateIdle /\ ChatIdle /\ AuthIdle /\ TokenIdle /\ PageIdle

SpecSession == Init /\ [][NextSession]_vars

NextChat ==
    \/ \E c \in Clients : OpenChatCheck(c) /\ RateIdle /\ SessIdle /\ AuthIdle /\ TokenIdle /\ PageIdle
    \/ \E c \in Clients : OpenChatSetDoc(c) /\ RateIdle /\ SessIdle /\ AuthIdle /\ TokenIdle /\ PageIdle
    \/ \E c \in Clients : CloseChatQuery(c) /\ RateIdle /\ SessIdle /\ AuthIdle /\ TokenIdle /\ PageIdle
    \/ \E c \in Clients : CloseChatUpdateDoc(c) /\ RateIdle /\ SessIdle /\ AuthIdle /\ TokenIdle /\ PageIdle
    \/ \E c \in Clients, u \in Users : IsUserBannedCall(c, u) /\ RateIdle /\ SessIdle /\ AuthIdle /\ TokenIdle /\ PageIdle
    \/ \E c \in Clients : IsUserBannedUpdateDoc(c) /\ RateIdle /\ SessIdle /\ AuthIdle /\ TokenIdle /\ PageIdle
    \/ \E c \in Clients, u \in Users, len \in BodyLengths :
           SendMessageCall(c, u, len) /\ RateIdle /\ SessIdle /\ AuthIdle /\ TokenIdle /\ PageIdle
    \/ \E c \in Clients : SendIsChatOpen(c) /\ RateIdle /\ SessIdle /\ AuthIdle /\ TokenIdle /\ PageIdle
    \/ \E c \in Clients : SendSetDoc(c) /\ RateIdle /\ SessIdle /\ AuthIdle /\ TokenIdle /\ PageIdle
    \/ \E c \in Clients : SendSessionQuery(c) /\ RateIdle /\ SessIdle /\ AuthIdle /\ TokenIdle /\ PageIdle
    \/ \E c \in Clients : SendSessionUpdate(c) /\ RateIdle /\ SessIdle /\ AuthIdle /\ TokenIdle /\ PageIdle
    \/ \E c \in Clients, u \in Users, duration \in BanDurations :
           BanUserCall(c, u, duration) /\ RateIdle /\ SessIdle /\ AuthIdle /\ TokenIdle /\ PageIdle
    \/ \E c \in Clients : BanSetDoc(c) /\ RateIdle /\ SessIdle /\ AuthIdle /\ TokenIdle /\ PageIdle
    \/ ChatTick /\ RateIdle /\ SessIdle /\ AuthIdle /\ TokenIdle /\ PageIdle

SpecChat == Init /\ [][NextChat]_vars

NextBan ==
    \/ \E c \in Clients, u \in Users, duration \in AllBanDurations :
           BanUserCall(c, u, duration) /\ RateIdle /\ SessIdle /\ AuthIdle /\ TokenIdle /\ PageIdle
    \/ \E c \in Clients : BanSetDoc(c) /\ RateIdle /\ SessIdle /\ AuthIdle /\ TokenIdle /\ PageIdle
    \/ \E c \in Clients, u \in Users : IsUserBannedCall(c, u) /\ RateIdle /\ SessIdle /\ AuthIdle /\ TokenIdle /\ PageIdle
    \/ \E c \in Clients : IsUserBannedUpdateDoc(c) /\ RateIdle /\ SessIdle /\ AuthIdle /\ TokenIdle /\ PageIdle
    \/ \E c \in Clients, u \in Users : UnbanUserGetDocs(c, u) /\ RateIdle /\ SessIdle /\ AuthIdle /\ TokenIdle /\ PageIdle
    \/ \E c \in Clients : UnbanUserUpdateDoc(c) /\ RateIdle /\ SessIdle /\ AuthIdle /\ TokenIdle /\ PageIdle
    \/ \E c \in Clients : GetBannedUsers(c) /\ RateIdle /\ SessIdle /\ AuthIdle /\ TokenIdle /\ PageIdle
    \/ ChatTick /\ RateIdle /\ SessIdle /\ AuthIdle /\ TokenIdle /\ PageIdle

\* sendMessage beside the calls that open and close the chat
NextSend ==
    \/ \E c \in Clients : OpenChatCheck(c) /\ RateIdle /\ SessIdle /\ AuthIdle /\ TokenIdle /\ PageIdle
    \/ \E c \in Clients : OpenChatSetDoc(c) /\ RateIdle /\ SessIdle /\ AuthIdle /\ TokenIdle /\ PageIdle
    \/ \E c \in Clients : CloseChatQuery(c) /\ RateIdle /\ SessIdle /\ AuthIdle /\ TokenIdle /\ PageIdle
    \/ \E c \in Clients : CloseChatUpdateDoc(c) /\ RateIdle /\ SessIdle /\ AuthIdle /\ TokenIdle /\ PageIdle
    \/ \E c \in Clients, u \in Users, len \in BodyLengths :
           SendMessageCall(c, u, len) /\ RateIdle /\ SessIdle /\ AuthIdle /\ TokenIdle /\ PageIdle
    \/ \E c \in Clients : SendIsChatOpen(c) /\ RateIdle /\ SessIdle /\ AuthIdle /\ TokenIdle /\ PageIdle
    \/ \E c \in Clients : SendSetDoc(c) /\ RateIdle /\ SessIdle /\ AuthIdle /\ TokenIdle /\ PageIdle
    \/ \E c \in Clients : SendSessionQuery(c) /\ RateIdle /\ SessIdle /\ AuthIdle /\ TokenIdle /\ PageIdle
    \/ \E c \in Clients : SendSessionUpdate(c) /\ RateIdle /\ SessIdle /\ AuthIdle /\ TokenIdle /\ PageIdle

SpecSend == Init /\ [][NextSend]_vars

SpecBan == Init /\ [][NextBan]_vars

\* how many messages the store holds when moderation starts
StoredCounts == {1, 2}

\* the chat has been opened and user u1 has sent some messages, all of them
\* stored and counted
InitModeration ==
    /\ now = StartTime
    /\ RateStart
    /\ SessStart
    /\ \E n \in StoredCounts :
          /\ chatSessions = <<[isOpen |-> TRUE, participants |-> {"u1"},
                               messageCount |-> n, created |-> n]>>
          /\ chat = [i \in 1..n |-> NewMessage("u1")]
    /\ bannedUsers = <<>>
    /\ inFlight = {}
    /\ pc = [c \in Clients |-> "idle"]
    /\ call = [c \in Clients |-> NoCall]
    /\ ret = [op |-> "none"]
    /\ retMon = NoMon
    /\ mon = [c \in Clients |-> NoMon]
    /\ chTicks = 0
    /\ chCalls = 0
    /\ AuthStart
    /\ TokenStart
    /\ PassStart
    /\ AppStart
    /\ HistStart

NextModeration ==
    \/ \E c \in Clients, u \in Users, len \in BodyLengths :
           SendMessageCall(c, u, len) /\ RateIdle /\ SessIdle /\ AuthIdle /\ TokenIdle /\ PageIdle
    \/ \E c \in Clients : SendIsChatOpen(c) /\ RateIdle /\ SessIdle /\ AuthIdle /\ TokenIdle /\ PageIdle
    \/ \E c \in Clients : SendSetDoc(c) /\ RateIdle /\ SessIdle /\ AuthIdle /\ TokenIdle /\ PageIdle
    \/ \E c \in Clients : SendSessionQuery(c) /\ RateIdle /\ SessIdle /\ AuthIdle /\ TokenIdle /\ PageIdle
    \/ \E c \in Clients : SendSessionUpdate(c) /\ RateIdle /\ SessIdle /\ AuthIdle /\ TokenIdle /\ PageIdle
    \/ \E c \in Clients, id \in MessageIds, adminId \in SoleAdmin :
           DeleteMessageGetDoc(c, id, adminId) /\ RateIdle /\ SessIdle /\ AuthIdle /\ TokenIdle /\ PageIdle
    \/ \E c \in Clients : DeleteMessageUpdateDoc(c) /\ RateIdle /\ SessIdle /\ AuthIdle /\ TokenIdle /\ PageIdle
    \/ \E c \in Clients, adminId \in SoleAdmin :
           ClearAllMessagesGetDocs(c, adminId) /\ RateIdle /\ SessIdle /\ AuthIdle /\ TokenIdle /\ PageIdle
    \/ \E c \in Clients : ClearAllMessagesUpdateDoc(c) /\ RateIdle /\ SessIdle /\ AuthIdle /\ TokenIdle /\ PageIdle
    \/ ClearAllMessagesLateUpdate /\ RateIdle /\ SessIdle /\ AuthIdle /\ TokenIdle /\ PageIdle

SpecModeration == InitModeration /\ [][NextModeration]_vars

NextClear ==
    \/ \E c \in Clients, id \in MessageIds, adminId \in Admins :
           DeleteMessageGetDoc(c, id, adminId) /\ RateIdle /\ SessIdle /\ AuthIdle /\ TokenIdle /\ PageIdle
    \/ \E c \in Clients : DeleteMessageUpdateDoc(c) /\ RateIdle /\ SessIdle /\ AuthIdle /\ TokenIdle /\ PageIdle
    \/ \E c \in Clients, adminId \in Admins :
           ClearAllMessagesGetDocs(c, adminId) /\ RateIdle /\ SessIdle /\ AuthIdle /\ TokenIdle /\ PageIdle
    \/ \E c \in Clients : ClearAllMessagesUpdateDoc(c) /\ RateIdle /\ SessIdle /\ AuthIdle /\ TokenIdle /\ PageIdle
    \/ ClearAllMessagesLateUpdate /\ RateIdle /\ SessIdle /\ AuthIdle /\ TokenIdle /\ PageIdle

SpecClear == InitModeration /\ [][NextClear]_vars

NextPassword ==
    \E s \in Passwords :
        ValidatePasswordCall(s) /\ RateIdle /\ SessIdle /\ ChatIdle /\ AuthIdle /\ TokenIdle /\ HistIdle

SpecPassword == Init /\ [][NextPassword]_vars

NextApp ==
    \/ AppInit /\ RateIdle /\ SessIdle /\ ChatIdle /\ AuthIdle /\ TokenIdle /\ HistIdle
    \/ \E success \in BOOLEAN, u \in AppUsers :
           HandleLogin(success, u) /\ RateIdle /\ SessIdle /\ ChatIdle /\ AuthIdle /\ TokenIdle /\ HistIdle
    \/ \E success \in BOOLEAN, u \in AppUsers :
           HandleRegister(success, u) /\ RateIdle /\ SessIdle /\ ChatIdle /\ AuthIdle /\ TokenIdle /\ HistIdle
    \/ \E success \in BOOLEAN, u \in AppUsers :
           HandleGoogleLogin(success, u) /\ RateIdle /\ SessIdle /\ ChatIdle /\ AuthIdle /\ TokenIdle /\ HistIdle
    \/ AppLogout /\ RateIdle /\ SessIdle /\ ChatIdle /\ AuthIdle /\ TokenIdle /\ HistIdle

SpecApp == Init /\ [][NextApp]_vars

NextAuth ==
    \/ \E k \in Tasks, e \in Emails : LoginUserStart(k, e) /\ ChatIdle /\ TokenIdle /\ PageIdle
    \/ \E k \in Tasks : LoginUserSignIn(k) /\ ChatIdle /\ TokenIdle /\ PageIdle
    \/ \E k \in Tasks : LoginUserGetDoc(k) /\ ChatIdle /\ TokenIdle /\ PageIdle
    \/ \E k \in Tasks : LoginUserSignOut(k) /\ ChatIdle /\ TokenIdle /\ PageIdle
    \/ \E k \in Tasks : LoginUserUpdateDoc(k) /\ ChatIdle /\ TokenIdle /\ PageIdle
    \/ \E k \in Tasks, nameOk \in Validities, e \in Emails, passwordOk \in Validities :
           RegisterUserStart(k, nameOk, e, passwordOk) /\ ChatIdle /\ TokenIdle /\ PageIdle
    \/ \E k \in Tasks : RegisterUserExists(k) /\ ChatIdle /\ TokenIdle /\ PageIdle
    \/ \E k \in Tasks : RegisterUserCreate(k) /\ ChatIdle /\ TokenIdle /\ PageIdle
    \/ \E k \in Tasks : RegisterUserSetDoc(k) /\ ChatIdle /\ TokenIdle /\ PageIdle
    \/ \E k \in Tasks, e \in Emails : LoginAdminStart(k, e) /\ ChatIdle /\ TokenIdle /\ PageIdle
    \/ \E k \in Tasks : LoginAdminGetDocs(k) /\ ChatIdle /\ TokenIdle /\ PageIdle
    \/ \E k \in Tasks : LoginAdminCompare(k) /\ ChatIdle /\ TokenIdle /\ PageIdle
    \/ \E k \in Tasks : LoginAdminUpdateDoc(k) /\ ChatIdle /\ TokenIdle /\ PageIdle
    \/ \E k \in Tasks : LogoutStart(k) /\ ChatIdle /\ TokenIdle /\ PageIdle
    \/ \E k \in Tasks : LogoutSignOut(k) /\ ChatIdle /\ TokenIdle /\ PageIdle
    \/ AuthTick /\ ChatIdle /\ TokenIdle /\ PageIdle

NextToken ==
    \/ \E u \in Ids, r \in Ids :
           GenerateToken(u, r) /\ RateIdle /\ SessIdle /\ ChatIdle /\ AuthIdle /\ PageIdle
    \/ \E u \in Ids, r \in Ids :
           ValidateToken(u, r) /\ RateIdle /\ SessIdle /\ ChatIdle /\ AuthIdle /\ PageIdle
    \/ TokenTick /\ RateIdle /\ SessIdle /\ ChatIdle /\ AuthIdle /\ PageIdle

SpecToken == Init /\ [][NextToken]_vars

\* the page has made some attempts on the identifiers of the address: the
\* table is the one these checkRateLimit calls leave
InitAuth ==
    /\ now = StartTime
    /\ \E n \in PriorAttempts, m \in PriorAttempts :
          loginAttempts =
              AfterAttempts(
                  AfterAttempts([k \in {} |-> FreshRecord(0)],
                                UserIdentifier("a@x.io"), n, StartTime),
                  AdminIdentifier("a@x.io"), m, StartTime)
    /\ rlLast = [op |-> "none"]
    /\ rlCalls = [i \in Identifiers |-> 0]
    /\ rlAfterReset = [i \in Identifiers |-> "no"]
    /\ rlTicks = 0
    /\ rlOps = 0
    /\ SessStart
    /\ ChatStart
    /\ AuthStart
    /\ TokenStart
    /\ PassStart
    /\ AppStart
    /\ HistStart

SpecAuth == InitAuth /\ [][NextAuth]_vars

\* checkRateLimit(id) or resetRateLimit(id) in this step has locked id out
\* or has deleted its record
LockedOrReset(id) ==
    /\ id \in DOMAIN loginAttempts
    /\ \/ id \notin DOMAIN loginAttempts'
       \/ /\ ~LockedOut(loginAttempts[id], now)
          /\ LockedOut(loginAttempts'[id], now')

\* auth.ts:245, a task's bcrypt.compare against the admin record r is
\* answered in this step
VerifiedNow(r) ==
    \E k \in Tasks :
        /\ auPc[k] = "admin_compare"
        /\ auPc'[k] # "admin_compare"
        /\ ToLowerCase(auCall[k].email) = r

\* the verifications are counted per admin record, from the last lockout or
\* reset of an identifier loginAdmin uses for the record
CountVerifications ==
    /\ auVerified' =
          [r \in AdminRecords |->
              IF \E e \in AllEmails :
                    ToLowerCase(e) = r /\ LockedOrReset(AdminIdentifier(e))
              THEN 0
              ELSE IF VerifiedNow(r) THEN auVerified[r] + 1
              ELSE auVerified[r]]
    /\ UNCHANGED apSent

\* the email arguments the specification about identifiers draws from
SurfaceEmails == {"a@x.io", "admin_a@x.io", "A@x.io"}

IdentifiersIdle ==
    CountVerifications /\ ChatIdle /\ TokenIdle /\ UNCHANGED <<passVars, appVars>>

\* the calls of the user surface and of the admin surface, with email
\* arguments of both letter cases and with the admin prefix
NextIdentifiers ==
    \/ \E k \in Tasks, e \in SurfaceEmails : LoginUserStart(k, e) /\ IdentifiersIdle
    \/ \E k \in Tasks : LoginUserSignIn(k) /\ IdentifiersIdle
    \/ \E k \in Tasks : LoginUserGetDoc(k) /\ IdentifiersIdle
    \/ \E k \in Tasks : LoginUserSignOut(k) /\ IdentifiersIdle
    \/ \E k \in Tasks : LoginUserUpdateDoc(k) /\ IdentifiersIdle
    \/ \E k \in Tasks, nameOk \in Validities, e \in SurfaceEmails, passwordOk \in Validities :
           RegisterUserStart(k, nameOk, e, passwordOk) /\ IdentifiersIdle
    \/ \E k \in Tasks : RegisterUserExists(k) /\ IdentifiersIdle
    \/ \E k \in Tasks : RegisterUserCreate(k) /\ IdentifiersIdle
    \/ \E k \in Tasks : RegisterUserSetDoc(k) /\ IdentifiersIdle
    \/ \E k \in Tasks, e \in SurfaceEmails : LoginAdminStart(k, e) /\ IdentifiersIdle
    \/ \E k \in Tasks : LoginAdminGetDocs(k) /\ IdentifiersIdle
    \/ \E k \in Tasks : LoginAdminCompare(k) /\ IdentifiersIdle
    \/ \E k \in Tasks : LoginAdminUpdateDoc(k) /\ IdentifiersIdle

\* the page has made some loginAdmin("a@x.io") calls, each of which had its
\* password verified against the admin record and found wrong
InitIdentifiers ==
    /\ now = StartTime
    /\ \E m \in PriorAttempts :
          /\ loginAttempts =
                AfterAttempts([k \in {} |-> FreshRecord(0)],
                              AdminIdentifier("a@x.io"), m, StartTime)
          /\ auVerified = [r \in AdminRecords |-> IF r = "a@x.io" THEN m ELSE 0]
    /\ apSent = NoSend
    /\ rlLast = [op |-> "none"]
    /\ rlCalls = [i \in Identifiers |-> 0]
    /\ rlAfterReset = [i \in Identifiers |-> "no"]
    /\ rlTicks = 0
    /\ rlOps = 0
    /\ SessStart
    /\ ChatStart
    /\ AuthStart
    /\ TokenStart
    /\ PassStart
    /\ AppStart

SpecIdentifiers == InitIdentifiers /\ [][NextIdentifiers]_vars

\* the two login calls of the user surface
NextLogin ==
    \/ \E k \in Tasks, e \in Emails : LoginUserStart(k, e) /\ ChatIdle /\ TokenIdle /\ PageIdle
    \/ \E k \in Tasks : LoginUserSignIn(k) /\ ChatIdle /\ TokenIdle /\ PageIdle
    \/ \E k \in Tasks : LoginUserGetDoc(k) /\ ChatIdle /\ TokenIdle /\ PageIdle
    \/ \E k \in Tasks : LoginUserSignOut(k) /\ ChatIdle /\ TokenIdle /\ PageIdle
    \/ \E k \in Tasks : LoginUserUpdateDoc(k) /\ ChatIdle /\ TokenIdle /\ PageIdle
    \/ \E k \in Tasks : LoginWithGoogleStart(k) /\ ChatIdle /\ TokenIdle /\ PageIdle
    \/ \E k \in Tasks : LoginWithGoogleSignIn(k) /\ ChatIdle /\ TokenIdle /\ PageIdle
    \/ \E k \in Tasks : LoginWithGoogleGetDoc(k) /\ ChatIdle /\ TokenIdle /\ PageIdle
    \/ \E k \in Tasks : LoginWithGoogleSignOut(k) /\ ChatIdle /\ TokenIdle /\ PageIdle
    \/ \E k \in Tasks : LoginWithGoogleSetDoc(k) /\ ChatIdle /\ TokenIdle /\ PageIdle
    \/ \E k \in Tasks : LoginWithGoogleUpdateDoc(k) /\ ChatIdle /\ TokenIdle /\ PageIdle
    \/ \E k \in Tasks : LogoutStart(k) /\ ChatIdle /\ TokenIdle /\ PageIdle
    \/ \E k \in Tasks : LogoutSignOut(k) /\ ChatIdle /\ TokenIdle /\ PageIdle

SpecLogin == Init /\ [][NextLogin]_vars

\* the components the chat steps and the page events of the specification
\* about the session gate leave alone
GateChatIdle ==
    RateIdle /\ SessIdle /\ AuthIdle /\ TokenIdle /\ PageIdle

GatePageIdle ==
    RateIdle /\ AuthIdle /\ TokenIdle /\ UNCHANGED auVerified

\* the page with its session store and the chat it sends to: the chat is
\* opened by an admin's client, users log in and out and send messages
NextGate ==
    \/ \E c \in Clients \ {AppClient} : OpenChatCheck(c) /\ GateChatIdle
    \/ \E c \in Clients \ {AppClient} : OpenChatSetDoc(c) /\ GateChatIdle
    \/ SendIsChatOpen(AppClient) /\ GateChatIdle
    \/ SendSetDoc(AppClient) /\ GateChatIdle
    \/ SendSessionQuery(AppClient) /\ GateChatIdle
    \/ SendSessionUpdate(AppClient) /\ GateChatIdle
    \/ GateTick /\ GateChatIdle
    \/ AppInitWithSession /\ ChatIdle /\ UNCHANGED apSent /\ GatePageIdle
    \/ \E success \in BOOLEAN, u \in Users :
           HandleLoginWithSession(success, u) /\ ChatIdle /\ UNCHANGED apSent /\ GatePageIdle
    \/ AppLogoutWithSession /\ ChatIdle /\ UNCHANGED apSent /\ GatePageIdle
    \/ \E len \in BodyLengths : SendChatMessage(len) /\ GatePageIdle

\* the page is loaded with an empty session store, or with the session a
\* login of user u1 stored just before
InitGate ==
    /\ now = StartTime
    /\ RateStart
    /\ \E stored \in BOOLEAN :
          localStorage =
              IF stored
              THEN SetItem([k \in {} |-> JSStr("")], SESSION_KEY,
                           JSONStringify(
                               SessionObject(SESSION_KEY, "u1",
                                             SessionDataOf("loginUser"),
                                             StartTime, StartTime)))
              ELSE [k \in {} |-> JSStr("")]
    /\ ssPending = [k \in Slots |-> {}]
    /\ ssLapsed = [k \in Slots |-> FALSE]
    /\ ssLast = [op |-> "none"]
    /\ ssTicks = 0
    /\ ssOps = 0
    /\ ChatStart
    /\ AuthStart
    /\ TokenStart
    /\ PassStart
    /\ AppStart
    /\ HistStart

SpecGate == InitGate /\ [][NextGate]_vars

(***************************************************************************)
(* Claims about the rate limiter, checked under SpecRate.                  *)
(***************************************************************************)

\* C1: starting from no record, each of the first MAX_LOGIN_ATTEMPTS
\* consecutive checkRateLimit calls on an identifier (no resetRateLimit in
\* between) returns allowed, and the next one returns allowed = false with
\* remainingTime = 900, the lockout duration in seconds.
C1_FiveAllowedThenLocked ==
    rlLast.op = "check" =>
        LET k == rlCalls[rlLast.id] IN
        /\ k \in 1..MAX_LOGIN_ATTEMPTS => rlLast.result = [allowed |-> TRUE]
        /\ k = MAX_LOGIN_ATTEMPTS + 1 =>
               rlLast.result = [allowed |-> FALSE, remainingTime |-> 900]

\* the sixth consecutive call has just been refused
C1_Witness ==
    /\ rlLast.op = "check"
    /\ rlCalls[rlLast.id] = MAX_LOGIN_ATTEMPTS + 1
    /\ ~rlLast.result.allowed

\* C2: a checkRateLimit call that finds a record carrying lockedUntil at a
\* time now >= lockedUntil returns allowed and replaces the record by
\* count = 1 without lockedUntil.
C2_ExpiredLockoutResets ==
    (/\ rlLast.op = "check"
     /\ \E r \in rlLast.before :
            "lockedUntil" \in DOMAIN r /\ rlLast.at >= r.lockedUntil)
    => /\ rlLast.result = [allowed |-> TRUE]
       /\ rlLast.id \in DOMAIN loginAttempts
       /\ loginAttempts[rlLast.id].count = 1
       /\ "lockedUntil" \notin DOMAIN loginAttempts[rlLast.id]

\* a call made exactly when the lockout ends
C2_Witness ==
    /\ rlLast.op = "check"
    /\ \E r \in rlLast.before :
           "lockedUntil" \in DOMAIN r /\ rlLast.at = r.lockedUntil
    /\ rlLast.result.allowed

\* C3: whatever came before, resetRateLimit(id) followed by
\* checkRateLimit(id) returns allowed and leaves the record of a first
\* attempt: count = 1, no lockedUntil.
C3_ResetThenCheckIsFirstAttempt ==
    (rlLast.op = "check" /\ rlLast.afterReset # "no")
    => /\ rlLast.result = [allowed |-> TRUE]
       /\ rlLast.id \in DOMAIN loginAttempts
       /\ loginAttempts[rlLast.id] = FreshRecord(rlLast.at)
       /\ loginAttempts[rlLast.id].count = 1
       /\ "lockedUntil" \notin DOMAIN loginAttempts[rlLast.id]

\* the reset was made during a lockout, and the next call was allowed
C3_Witness ==
    /\ rlLast.op = "check"
    /\ rlLast.afterReset = "locked"
    /\ rlLast.result.allowed

(***************************************************************************)
(* Claims about the session store, checked under SpecSession.              *)
(***************************************************************************)

\* a get on a slot that was set and not cleared since, made at now <= expires
C9_GetWithinTTL ==
    /\ ssLast.op = "get"
    /\ \E p \in ssLast.pending : ssLast.at <= p.expires

\* C9 as stated: for either slot, a get made after a set, with no set or
\* clear in between and at a time now <= expires, returns a record carrying
\* the subject id and the subject data that were set.
C9_GetReturnsWhatWasSet ==
    C9_GetWithinTTL =>
        /\ ssLast.result # {}
        /\ \A r \in ssLast.result, p \in ssLast.pending :
            /\ SessionSubjectId(ssLast.slot, r) = JSStr(p.id)
            /\ SessionSubjectData(ssLast.slot, r) = p.data

\* C9 as amended: such a get returns a record carrying the subject id that
\* was set and the JSON round trip of the subject data that were set, which
\* is the data themselves when they are JSON-plain.
C9_GetReturnsJSONOfWhatWasSet ==
    C9_GetWithinTTL =>
        /\ ssLast.result # {}
        /\ \A r \in ssLast.result, p \in ssLast.pending :
            /\ SessionSubjectId(ssLast.slot, r) = JSStr(p.id)
            /\ SessionSubjectData(ssLast.slot, r)
                   = JSONParse(JSONStringify(p.data))
            /\ IsJSONPlain(p.data)
                   => SessionSubjectData(ssLast.slot, r) = p.data

\* a get made exactly at expires returns the plain data that were set
C9_Witness ==
    /\ ssLast.op = "get"
    /\ \E p \in ssLast.pending :
           /\ ssLast.at = p.expires
           /\ IsJSONPlain(p.data)
           /\ \E r \in ssLast.result :
                  SessionSubjectData(ssLast.slot, r) = p.data

\* C10: for either slot, a get made at now > expires returns null and
\* removes the stored record; every later get returns null until the next
\* set; and no get returns a record whose expires is earlier than the time
\* of the call.
C10_LazyExpiry ==
    ssLast.op = "get" =>
        /\ (\E b \in ssLast.before : ssLast.at > b.obj.expires.num)
               => /\ ssLast.result = {}
                  /\ ssLast.slot \notin DOMAIN localStorage
        /\ ssLast.lapsed => ssLast.result = {}
        /\ \A r \in ssLast.result : r.obj.expires.num >= ssLast.at

\* a get after the get that found the record expired: the slot is empty
C10_Witness ==
    /\ ssLast.op = "get"
    /\ ssLast.lapsed
    /\ ssLast.before = {}
    /\ ssLast.result = {}

(***************************************************************************)
(* Claims about the chat service, checked under SpecChat.  ret is the last *)
(* call that returned and retMon what held in every state from its start   *)
(* to its return.                                                          *)
(***************************************************************************)

\* C4: a sendMessage call with a valid body by a user who has a ban in force
\* (an active record with no expiresAt or an expiresAt in the future) for
\* the whole call returns success = false with the banned message and
\* creates no message document, whatever the outcome of the ban lookup.
C4_BannedSenderIsRejected ==
    (ret.op = "sendMessage" /\ ret.valid /\ retMon.banned)
    => /\ ret.result = Result(FALSE, MsgBanned)
       /\ "chat" \notin ret.writes

\* C5: a sendMessage call with a valid body by a user without a ban, made
\* while no ChatSession has isOpen = true for the whole call, returns
\* success = false with the closed-chat message and creates no message
\* document.
C5_ClosedChatRejects ==
    (ret.op = "sendMessage" /\ ret.valid /\ retMon.notBanned /\ retMon.noOpen)
    => /\ ret.result = Result(FALSE, MsgClosed)
       /\ "chat" \notin ret.writes

\* such a call has returned the closed-chat message, its ban lookup answered
C5_Witness ==
    /\ ret.op = "sendMessage" /\ ret.valid
    /\ retMon.notBanned /\ retMon.noOpen
    /\ ret.read = "ok"
    /\ ret.result = Result(FALSE, MsgClosed)
    /\ chat = <<>>

\* a sendMessage call was rejected by one of its guards
C6_Rejected ==
    /\ ret.op = "sendMessage"
    /\ ret.result.message \in {MsgInvalid, MsgBanned, MsgClosed}

\* C6 as stated: a sendMessage call rejected by one of its guards (invalid
\* body, banned user, closed chat) writes nothing to the document store.
C6_RejectedSendWritesNothing ==
    C6_Rejected => ret.writes = {}

\* C6 as amended: a rejected sendMessage call creates no message and updates
\* no ChatSession; it writes nothing when the body is invalid or the user
\* banned, and before a closed-chat rejection its only write is the ban
\* lookup setting isActive = false on an expired ban record of the sender.
C6_RejectedSendWritesNoMessage ==
    C6_Rejected =>
        /\ ret.writes \subseteq {"bannedUsers"}
        /\ ret.result.message \in {MsgInvalid, MsgBanned} => ret.writes = {}
        /\ ret.writes # {} =>
              /\ ret.upd = "ok"
              /\ ret.doc \in DOMAIN bannedUsers
              /\ bannedUsers[ret.doc].userId = ret.user
              /\ ~bannedUsers[ret.doc].isActive
              /\ "expiresAt" \in DOMAIN bannedUsers[ret.doc]
              /\ bannedUsers[ret.doc].expiresAt < now

\* a closed-chat rejection after the lookup deactivated the expired ban
C6_Witness ==
    /\ ret.op = "sendMessage"
    /\ ret.result = Result(FALSE, MsgClosed)
    /\ ret.writes = {"bannedUsers"}

\* C7: in every reachable state at most one ChatSession has isOpen = true.
C7_AtMostOneOpenSession == Cardinality(OpenSessions) <= 1

\* isUserBanned(u) has returned, and its query was made when the only active
\* ban record of u had an expiresAt earlier than now
C8_LookupOfExpiredBan == ret.op = "isUserBanned" /\ ret.sole # {}

C11_LogoutEmptiesBothSlots ==
    auRet.op = "logout" => ~auRet.user /\ ~auRet.admin

\* C16: when loginUser, registerUser or loginAdmin returns success the table
\* holds no record of the identifier the call consulted, and the next call
\* that consults this identifier is allowed and leaves the record of a first
\* attempt.
C16_SuccessResetsTheIdentifier ==
    /\ [](auRet.op \in {"loginUser", "registerUser", "loginAdmin"}
            /\ auRet.success => ~auRet.record)
    /\ [][(auLast'.checked /\ auCalls' # auCalls /\ auFresh[auLast'.id])
            => /\ RateLimitResult(loginAttempts, auLast'.id, now).allowed
               /\ auLast'.id \in DOMAIN loginAttempts'
               /\ loginAttempts'[auLast'.id] = FreshRecord(now)]_vars

\* a call has consulted an identifier after a successful login with it, and
\* has gone on to the backend
C16_Witness ==
    /\ auRet.op \in {"loginUser", "registerUser", "loginAdmin"}
    /\ auRet.success
    /\ auLast.checked /\ auLast.id = auRet.id
    /\ ~auFresh[auRet.id]
    /\ loginAttempts[auRet.id].count = 1
    /\ \E k \in Tasks : auPc[k] # "idle" /\ auCall[k].id = auRet.id

\* C17: a step of a loginAdmin call with email e leaves unchanged the record
\* that loginUser(e) and registerUser(e) consult, and a step of a loginUser
\* or registerUser call with e leaves unchanged the record that loginAdmin(e)
\* consults.
C17_BudgetsAreSeparate ==
    [][/\ auLast'.op = "loginAdmin"
            => RecordOf(loginAttempts', UserIdentifier(auLast'.email))
                   = RecordOf(loginAttempts, UserIdentifier(auLast'.email))
       /\ auLast'.op \in {"loginUser", "registerUser"}
            => RecordOf(loginAttempts', AdminIdentifier(auLast'.email))
                   = RecordOf(loginAttempts, AdminIdentifier(auLast'.email))]_vars

\* a loginAdmin call has just counted an attempt while the user identifier
\* of the same email has a record of its own
C17_Witness ==
    /\ auLast.op = "loginAdmin" /\ auLast.checked
    /\ AdminIdentifier(auLast.email) \in DOMAIN loginAttempts
    /\ UserIdentifier(auLast.email) \in DOMAIN loginAttempts
    /\ loginAttempts[AdminIdentifier(auLast.email)].count
           # loginAttempts[UserIdentifier(auLast.email)].count

\* C18: a loginUser, registerUser or loginAdmin call whose input validation
\* fails or whose checkRateLimit answers not allowed returns success = false
\* having made no identity-provider or document-store call and written no
\* session.
C18_EarlyRejectionCallsNothing ==
    (auRet.op \in {"loginUser", "registerUser", "loginAdmin"} /\ auRet.early)
    => /\ ~auRet.success
       /\ auRet.backend = {}
       /\ ~auRet.wrote

\* a call has been refused by the rate limiter
C18_Witness ==
    /\ auRet.op \in {"loginUser", "registerUser", "loginAdmin"}
    /\ auRet.early
    /\ auRet.message = "rate limited"
    /\ auRet.backend = {}

(***************************************************************************)
(* Claims about the access tokens, checked under SpecToken.  tkLast is the *)
(* last validation, of the token `issued`.                                 *)
(***************************************************************************)

\* C12: for all subject ids u and resource ids r, ids that contain ':'
\* included, the token generated for (u, r) validates true for (u, r) at the
\* time of its generation.
C12_RoundTrip ==
    (/\ tkLast.op = "validate"
     /\ tkLast.userId = tkLast.issued.userId
     /\ tkLast.resource = tkLast.issued.resource
     /\ tkLast.at = tkLast.issued.at)
    => tkLast.result

\* C13: a token generated at time t for (u, r) validates true for (u, r) at
\* every time now with now - t < SESSION_TIMEOUT and false at every time
\* with now - t >= SESSION_TIMEOUT.
C13_ValidUntilTimeout ==
    (/\ tkLast.op = "validate"
     /\ tkLast.userId = tkLast.issued.userId
     /\ tkLast.resource = tkLast.issued.resource)
    => (tkLast.result <=> tkLast.at - tkLast.issued.at < SESSION_TIMEOUT)

\* C14: the token generated for (u, r) validates false for every (u2, r2)
\* with u2 # u or r2 # r, at every validation time.
C14_OnlyForItsSubjectAndResource ==
    (/\ tkLast.op = "validate"
     /\ \/ tkLast.userId # tkLast.issued.userId
        \/ tkLast.resource # tkLast.issued.resource)
    => ~tkLast.result

\* the ChatService operations that return {success, message}
ResultOperations ==
    {"openChat", "closeChat", "sendMessage", "deleteMessage", "banUser",
     "unbanUser", "clearAllMessages"}

\* C15: an operation that returns {success, message} returns success = false
\* whenever one of the requests it made of the store was rejected
C15_FailedRequestFailsTheOperation ==
    (ret.op \in ResultOperations /\ ret.failed) => ~ret.result.success

\* C19: a message that is marked deleted stays marked in every later state,
\* and no step removes a message from the store
C19_DeletedStaysAndNoneRemoved ==
    [][/\ Len(chat') >= Len(chat)
       /\ \A i \in DOMAIN chat :
             /\ chat'[i].userId = chat[i].userId
             /\ chat[i].isDeleted => chat'[i].isDeleted]_vars

\* two messages are marked deleted, the second by the deleteMessage call that
\* returned last
C19_Witness ==
    /\ ret.op = "deleteMessage"
    /\ ret.result.success
    /\ ret.doc = 2
    /\ chat[1].isDeleted
    /\ chat[2].isDeleted

\* C20: when closeChat returns success and no openChat call was running
\* during it, no session is open and isChatOpen() answers false
C20_CloseLeavesNoOpenSession ==
    [][\A c \in Clients :
          (/\ pc[c] = "close_updateDoc"
           /\ pc'[c] = "idle"
           /\ ret'.result.success
           /\ retMon'.noOpening)
          => /\ OpenSessions' = {}
             /\ \A outcome \in Outcomes : ~IsChatOpen(outcome)']_vars

\* C21: a banUser call made while its user has a ban in force returns
\* success = false and creates no ban record; a call made while the user has
\* none, and whose requests the store accepts, creates one record, active,
\* for that user
C21_BanOnlyTheUnbanned ==
    /\ (ret.op = "banUser" /\ retMon.banned)
          => (~ret.result.success /\ "bannedUsers" \notin ret.writes)
    /\ (ret.op = "banUser" /\ retMon.notBanned /\ ~ret.failed)
          => /\ "bannedUsers" \in ret.writes
             /\ \E i \in DOMAIN bannedUsers : bannedUsers[i].userId = ret.user

\* C22: the record banUser creates for a duration d, zero included, expires
\* d after the time banUser read when it built the record, and the record it
\* creates for no duration has no expiresAt
C22_ExpiryIsCreationPlusDuration ==
    [][\A c \in Clients :
          /\ (pc[c] # "ban_setDoc" /\ pc'[c] = "ban_setDoc")
                => call'[c].expiresAt = {now + d : d \in call'[c].duration}
          /\ (pc[c] = "ban_setDoc" /\ Len(bannedUsers') > Len(bannedUsers))
                => LET r == bannedUsers'[Len(bannedUsers')] IN
                   IF call[c].expiresAt = {}
                   THEN "expiresAt" \notin DOMAIN r
                   ELSE "expiresAt" \in DOMAIN r
                        /\ r.expiresAt \in call[c].expiresAt]_vars

\* per user: isUserBanned can answer true, that is, some active record of
\* the user that the query may return first has not expired
AnswersBanned ==
    [u \in Users |->
        \E d \in ActiveBans(u) : ~BanExpired(bannedUsers[d], now)]

\* C23: an unbanUser call for a user with no active ban returns
\* success = false and changes no document; when a call returns success with
\* no banUser call running during it, isUserBanned answers false for its user
C23_UnbanLiftsTheBan ==
    [][/\ \A c \in Clients :
             (pc[c] = "idle" /\ pc'[c] = "unban_updateDoc")
                => ActiveBans(call'[c].user) # {}
       /\ (chCalls' # chCalls /\ pc' = pc /\ ret'.op = "unbanUser")
             => (~ret'.result.success /\ bannedUsers' = bannedUsers)
       /\ \A c \in Clients :
             (/\ pc[c] = "unban_updateDoc"
              /\ pc'[c] = "idle"
              /\ ret'.result.success
              /\ retMon'.noBanning)
             => ~AnswersBanned'[call[c].user]]_vars

\* C24: getBannedUsers, its query accepted, returns the bans in force when
\* it is called, the most recent first: no record whose expiresAt has passed
C24_ListsTheBansInForce ==
    (ret.op = "getBannedUsers" /\ ret.read = "ok")
        => ret.result = Descending(ret.inForce)

\* C25 as stated: when clearAllMessages(adminId) returns success, every
\* message of its snapshot is marked deleted, by adminId
C25_ClearedByTheCaller ==
    [][\A c \in Clients :
          (pc[c] = "clear_updateDoc" /\ pc'[c] = "idle" /\ ret'.result.success)
          => \A d \in 1..call[c].snapCount :
                /\ chat'[d].isDeleted
                /\ chat'[d].deletedBy = {call[c].user}]_vars

\* C25, amended: when clearAllMessages(adminId) returns success, every
\* message of its snapshot is marked deleted; it is marked by adminId when no
\* other moderation call ran during the call and no update of an earlier one
\* was in flight
C25_ClearedByTheCallerWhenAlone ==
    [][\A c \in Clients :
          (pc[c] = "clear_updateDoc" /\ pc'[c] = "idle" /\ ret'.result.success)
          => \A d \in 1..call[c].snapCount :
                /\ chat'[d].isDeleted
                /\ retMon'.quiet => chat'[d].deletedBy = {call[c].user}]_vars

\* a clearAllMessages call of a1 that ran alone, the second call made, has
\* returned success and every message is marked by a1
C25_Witness ==
    /\ ret.op = "clearAllMessages"
    /\ ret.user = "a1"
    /\ ret.result.success
    /\ retMon.quiet
    /\ chCalls = 2
    /\ \A d \in DOMAIN chat : chat[d].deletedBy = {"a1"}

\* C26: every record of the rate-limit table has a count from 1 to
\* MAX_LOGIN_ATTEMPTS
C26_CountWithinBounds ==
    \A id \in DOMAIN loginAttempts :
        /\ 1 <= loginAttempts[id].count
        /\ loginAttempts[id].count <= MAX_LOGIN_ATTEMPTS

\* a call has been refused for an identifier whose record counts
\* MAX_LOGIN_ATTEMPTS attempts and is locked
C26_Witness ==
    /\ rlLast.op = "check"
    /\ ~rlLast.result.allowed
    /\ rlLast.id \in DOMAIN loginAttempts
    /\ loginAttempts[rlLast.id].count = MAX_LOGIN_ATTEMPTS
    /\ "lockedUntil" \in DOMAIN loginAttempts[rlLast.id]

\* C27: every session record in localStorage has
\* expires = timestamp + SESSION_TIMEOUT
C27_ExpiresIsTimestampPlusTimeout ==
    \A slot \in DOMAIN localStorage :
        LET parsed == JSONParse(localStorage[slot]) IN
        parsed.obj.expires.num = parsed.obj.timestamp.num + SESSION_TIMEOUT

\* the subscriptions of a stream that are live
LiveOf(stream) == {h \in apLive : h.stream = stream}

\* C28: at most one subscription of the message stream and at most one of
\* the chat-status stream are live
C28_OneSubscriptionPerStream ==
    /\ Cardinality(LiveOf("messages")) <= 1
    /\ Cardinality(LiveOf("status")) <= 1

\* both streams have been subscribed again: the live handles are not the
\* first two
C28_Witness ==
    /\ apEvents >= 3
    /\ \E h \in LiveOf("messages") : h.id > 2 /\ h.id = chatUnsubscribe
    /\ \E h \in LiveOf("status") : h.id > 2 /\ h.id = chatStatusUnsubscribe

\* C29: validatePassword(s) is true exactly when s has at least 8
\* characters, all of them allowed, a letter and a digit among them; it
\* rejects "password" and "12345678" and accepts "abc12345"
C29_PasswordRule ==
    pwLast.op = "validate" =>
        LET s == pwLast.password IN
        /\ pwLast.result =
              (/\ Len(s) >= 8
               /\ \A i \in 1..Len(s) : s[i] \in AllowedChars
               /\ \E i \in 1..Len(s) : s[i] \in LetterChars
               /\ \E i \in 1..Len(s) : s[i] \in DigitSet)
        /\ s = <<"p", "a", "s", "s", "w", "o", "r", "d">> => ~pwLast.result
        /\ s = <<"1", "2", "3", "4", "5", "6", "7", "8">> => ~pwLast.result
        /\ s = <<"a", "b", "c", "1", "2", "3", "4", "5">> => pwLast.result

\* "abc12345" has been accepted
C29_Witness ==
    /\ pwLast.op = "validate"
    /\ pwLast.password = <<"a", "b", "c", "1", "2", "3", "4", "5">>
    /\ pwLast.result

\* C30: when no sendMessage call is running, the messageCount of every
\* session is the number of messages created while it was open
C30_CountMatchesMessages ==
    (\A c \in Clients : call[c].op # "sendMessage")
        => \A i \in DOMAIN chatSessions :
               chatSessions[i].messageCount = chatSessions[i].created

(***************************************************************************)
(* Further claims about the rate limiter, checked under SpecRate.          *)
(***************************************************************************)

\* C35: a checkRateLimit call made while the identifier is locked out
\* (now < lockedUntil) is refused and leaves the whole table, and so the
\* record's count and lockedUntil, as it was
C35_LockedOutCallChangesNothing ==
    [][\A id \in Identifiers :
          (/\ rlOps' # rlOps
           /\ rlLast'.op = "check"
           /\ rlLast'.id = id
           /\ id \in DOMAIN loginAttempts
           /\ "lockedUntil" \in DOMAIN loginAttempts[id]
           /\ now < loginAttempts[id].lockedUntil)
          => /\ ~rlLast'.result.allowed
             /\ loginAttempts' = loginAttempts]_vars

\* a call has been refused during a lockout that began at an earlier time
C35_Witness ==
    /\ rlLast.op = "check"
    /\ ~rlLast.result.allowed
    /\ \E r \in rlLast.before :
           /\ "lockedUntil" \in DOMAIN r
           /\ rlLast.at < r.lockedUntil
           /\ rlLast.at > r.lockedUntil - LOCKOUT_DURATION

\* C40: a checkRateLimit call made while the identifier is locked out
\* returns allowed = false and remainingTime, the least number of whole
\* seconds that is no less than lockedUntil - now, a number from 1 to 900
C40_RemainingTimeIsCeiling ==
    rlLast.op = "check" =>
        \A r \in rlLast.before :
            ("lockedUntil" \in DOMAIN r /\ rlLast.at < r.lockedUntil)
            => /\ DOMAIN rlLast.result = {"allowed", "remainingTime"}
               /\ ~rlLast.result.allowed
               /\ (rlLast.result.remainingTime - 1) * 1000
                      < r.lockedUntil - rlLast.at
               /\ r.lockedUntil - rlLast.at
                      <= rlLast.result.remainingTime * 1000
               /\ rlLast.result.remainingTime >= 1
               /\ rlLast.result.remainingTime <= 900

\* a call made one millisecond into a lockout has been told 900 seconds
C40_Witness ==
    /\ rlLast.op = "check"
    /\ \E r \in rlLast.before :
           /\ "lockedUntil" \in DOMAIN r
           /\ r.lockedUntil - rlLast.at = LOCKOUT_DURATION - 1
    /\ rlLast.result = [allowed |-> FALSE, remainingTime |-> 900]

(***************************************************************************)
(* Further claims about the chat service.                                  *)
(***************************************************************************)

\* C31: the write of sendMessage is a request of its own, made after the
\* ban and open checks and without them: the step that makes it creates the
\* message unless the store rejects the request, whatever other clients
\* have done to the chat session and to the sender's bans since the checks.
\* The interleaving in which a closeChat completes in between is C31_Witness
C31_WriteIsApartFromTheChecks ==
    [][\A c \in Clients :
          (pc[c] = "send_setDoc" /\ pc'[c] # "send_setDoc")
          => \/ /\ chat' = Append(chat, NewMessage(call[c].user))
                /\ pc'[c] = "send_sessionQuery"
             \/ /\ chat' = chat
                /\ pc'[c] = "idle"
                /\ ret'.op = "sendMessage"
                /\ ret'.failed
                /\ ret'.result = Result(FALSE, MsgSendError)]_vars

\* the only session was open when a sendMessage call checked it, another
\* client's closeChat then closed it and returned success, and after that
\* the call created its message: the only message there is, created while
\* no session was open
C31_Witness ==
    /\ Len(chatSessions) = 1
    /\ ~chatSessions[1].isOpen
    /\ chatSessions[1].created = 0
    /\ Len(chat) = 1
    /\ ret.op = "closeChat"
    /\ ret.result.success
    /\ \E c \in Clients :
           /\ pc[c] = "send_sessionQuery"
           /\ call[c].op = "sendMessage"
           /\ "chat" \in call[c].writes
           /\ chat[1].userId = call[c].user

\* C32: whatever the interleaving of banUser, unbanUser and isUserBanned
\* calls and whatever the store answers, no user has more than one ban
\* record with isActive = true
C32_AtMostOneActiveBan ==
    \A u \in Users : Cardinality(ActiveBans(u)) <= 1

\* C36: when several guards of a sendMessage call fail at once, the
\* rejection it returns is the first of invalid body, banned user, closed
\* chat: an invalid body is answered with the invalid message also when the
\* sender has a ban in force or no session is open, and a valid body of a
\* sender who has a ban in force for the whole call, sent while no session
\* is open, is answered with the banned message, not the closed message
C36_FirstFailingGuardIsReported ==
    ret.op = "sendMessage" =>
        /\ (~ret.valid /\ (retMon.banned \/ retMon.noOpen))
              => ret.result = Result(FALSE, MsgInvalid)
        /\ (ret.valid /\ retMon.banned /\ retMon.noOpen)
              => ret.result = Result(FALSE, MsgBanned)

(***************************************************************************)
(* Further claims about the authentication service.                        *)
(***************************************************************************)

\* the messages of the returns made by input validation
ValidationMessages == {"invalid name", "invalid email", "invalid password"}

\* C37: a loginUser, registerUser or loginAdmin call that its input
\* validation rejects leaves the rate-limit table as it was: the limiter is
\* consulted after validation, so an invalid input consumes no attempt
C37_InvalidInputConsumesNoAttempt ==
    [][(/\ auCalls' # auCalls
        /\ auPc' = auPc
        /\ auRet'.op \in {"loginUser", "registerUser", "loginAdmin"}
        /\ auRet'.message \in ValidationMessages)
       => loginAttempts' = loginAttempts]_vars

\* registerUser has been refused for its password, with an address whose
\* identifier has a record in the table that counts four attempts
C37_Witness ==
    /\ auRet.op = "registerUser"
    /\ auRet.message = "invalid password"
    /\ ~auRet.success
    /\ ValidateEmail(auRet.email)
    /\ UserIdentifier(auRet.email) \in DOMAIN loginAttempts
    /\ loginAttempts[UserIdentifier(auRet.email)].count
           = MAX_LOGIN_ATTEMPTS - 1

\* C33: a step of a loginUser or registerUser call whose email validateEmail
\* accepts leaves unchanged the rate-limit record of every identifier that
\* loginAdmin consults for an email validateEmail accepts
C33_UserAttemptsLeaveAdminRecords ==
    [][auLast' # auLast /\ auLast'.op \in {"loginUser", "registerUser"}
       /\ ValidateEmail(auLast'.email)
       => \A e2 \in AllEmails :
             ValidateEmail(e2) =>
                RecordOf(loginAttempts', AdminIdentifier(e2))
                   = RecordOf(loginAttempts, AdminIdentifier(e2))]_vars

\* C34: since the last lockout or reset of an admin account, at most
\* MAX_LOGIN_ATTEMPTS password verifications have been made against its
\* record, whatever the letter case of the emails given to loginAdmin
C34_VerificationsAreBounded ==
    \A r \in AdminRecords : auVerified[r] <= MAX_LOGIN_ATTEMPTS

\* C39: a step of a loginUser or loginWithGoogle call that has read a user
\* document whose isBanned is true leaves the user slot as it was, and when
\* the call returns it returns success = false and has written no session
C39_BannedAccountGetsNoSession ==
    [][\A k \in Tasks :
          /\ auCall[k].op \in {"loginUser", "loginWithGoogle"}
          /\ auCall[k].banned \/ auCall'[k].banned
          /\ auPc'[k] # auPc[k]
          => /\ RecordOf(localStorage', SESSION_KEY)
                   = RecordOf(localStorage, SESSION_KEY)
             /\ auPc'[k] = "idle" =>
                   /\ auRet'.banned
                   /\ ~auRet'.success
                   /\ ~auRet'.wrote]_vars

\* a loginWithGoogle call that read a banned account has returned failure
\* while the session of an earlier login sits in the user slot
C39_Witness ==
    /\ auRet.op = "loginWithGoogle"
    /\ auRet.banned
    /\ ~auRet.success
    /\ auRet.backend = {"signIn", "getDoc", "signOut"}
    /\ auRet.user

(***************************************************************************)
(* Claims about the page, checked under SpecGate.                          *)
(***************************************************************************)

\* C38: a chat message is created only by a sendMessage call that
\* sendChatMessage made while getUserSession() returned a session: the
\* session had neither expired nor been cleared
C38_NoMessageWithoutSession ==
    [][Len(chat') > Len(chat) => apSent.called /\ apSent.session]_vars

====
